---- MODULE Spec2Model ----
(***************************************************************************)
(* State-machine model of the PaperMind web client (src/web/app.js): the   *)
(* conversation list, the active conversation's transcript, its persisted  *)
(* snapshots in localStorage, the push-event dispatcher, the request       *)
(* calls and the streaming connection.                                     *)
(*                                                                         *)
(* Conventions.                                                            *)
(*  - A text is a sequence of characters (one-character strings), so that  *)
(*    substring, trim and concatenation are computed as the code does.     *)
(*    Fixed literals of the source are written as one chunk; the Chinese   *)
(*    literals appear transliterated in ASCII.                             *)
(*  - A DOM element is a record [cls, id, key, status, text, kids]; the    *)
(*    avatar and the .message-content wrapper of a message are elided, so  *)
(*    the kids of a message are the children of its .message-content.      *)
(*  - Handlers are operators from a "world" record (the JS state object,   *)
(*    localStorage, the DOM, the controls, the outstanding requests) to    *)
(*    the world after the handler; an action commits the world the whole   *)
(*    handler produces.  An async handler is two operators: the part up to *)
(*    its await, and the part that runs when the request has settled.      *)
(*  - The user is signed in (checkAuthentication finds a token), and       *)
(*    localStorage accepts every write.                                    *)
(*  - The backend is not part of the sources.  Where a property needs it,  *)
(*    it is the variable net: it takes a turn when it answers /api/chat,   *)
(*    emits the events of the turn and ends it with one done; a frame goes *)
(*    to the open socket in order and is lost when no socket is open.      *)
(***************************************************************************)
EXTENDS Naturals, Sequences, FiniteSets, Bags, TLC

VARIABLES
    state,          \* app.js:17  const state = {processing, messages, sessionId, conversations}
    localStorage,   \* window.localStorage: key -> stored string
    container,      \* elements.messagesContainer: its child elements, in order
    chatHistory,    \* elements.chatHistory: the rendered conversation items
    controls,       \* messageInput / sendBtn / stopBtn
    elements,       \* app.js:460 cached handles: welcomeMessage is the position in the
                    \* container of the node it refers to, 0 when null or detached
    now,            \* Date.now()
    fetches,        \* fetch() calls whose response has not arrived yet (a bag of requests)
    ws,             \* sockets created by connectWebSocket and pending reconnect timers
    net,            \* the server's end of the socket: the frames in flight to the page,
                    \* the turns it still has to end, and the history of what it sent
    script          \* history: how many steps of a scripted scenario have been played

vars == <<state, localStorage, container, chatHistory, controls, elements, now, fetches,
          ws, net, script>>

-----------------------------------------------------------------------------
(* Bounds of the model *)

MaxTime == 1        \* the clock runs over 0..MaxTime
NumRnd == 1         \* Math.random() draws 1..NumRnd
MaxConvs == 2       \* conversations in the list
MaxMsgs == 2        \* messages over all transcripts (memory and store)
MaxKids == 1        \* appendages over all transcripts (memory and store)
MaxFetches == 1     \* outstanding requests
MaxEls == 4         \* child elements of the transcript container
MaxFails == 2       \* failed connection attempts in a row that are told apart
MaxSent == 2        \* frames the server emits before the done frames

-----------------------------------------------------------------------------
(* Texts *)

Hello == <<"h", "e", "l", "l", "o">>
Hi == <<"h", "i">>
Blank == <<" ", " ">>
DefaultTitle == <<"[New chat]">>            \* app.js:64 default title
StoppedText == <<"[Processing stopped.]">>  \* app.js:811
ErrorPrefix == <<"[Error: ]">>              \* app.js:765
SorryPrefix == <<"[Sorry, an error occurred: ]">>   \* app.js:889
RequestFailed == <<"[Request failed]">>     \* app.js:881 default reason
Ellipsis == <<".", ".", ".">>               \* app.js:60
TitleBudget == 30
PreviewBudget == 50

\* String.prototype.substring(0, n)
Substring(s, n) == IF Len(s) <= n THEN s ELSE SubSeq(s, 1, n)

RECURSIVE TrimLeft(_)
TrimLeft(s) == IF s # <<>> /\ Head(s) = " " THEN TrimLeft(Tail(s)) ELSE s

RECURSIVE TrimRight(_)
TrimRight(s) ==
    IF s # <<>> /\ s[Len(s)] = " " THEN TrimRight(SubSeq(s, 1, Len(s) - 1)) ELSE s

\* String.prototype.trim()
Trim(s) == TrimRight(TrimLeft(s))

\* a variant of generateConversationTitle that cuts without the ellipsis
generateConversationTitleCut(firstMessage) ==
    IF firstMessage = <<>> THEN DefaultTitle
    ELSE Substring(Trim(firstMessage), TitleBudget)

\* app.js:55
generateConversationTitle(firstMessage) ==
    IF firstMessage = <<>> THEN DefaultTitle
    ELSE Substring(Trim(firstMessage), TitleBudget)
            \o (IF Len(firstMessage) > TitleBudget THEN Ellipsis ELSE <<>>)

-----------------------------------------------------------------------------
(* Session ids *)

\* app.js:2  'session_' + Date.now() + '_' + Math.random()...
generateSessionId(t, r) == <<t, r>>

Rnd == 1..NumRnd
SessionIds(maxTime) == (0..maxTime) \X Rnd

-----------------------------------------------------------------------------
(* localStorage and JSON *)

KeyCurrent == <<"current_session_id">>
KeyConversations == <<"conversations">>
ChatKey(sid) == <<"chat_messages_", sid>>

HasItem(ls, k) == k \in DOMAIN ls
SetItem(ls, k, v) == [x \in (DOMAIN ls) \cup {k} |-> IF x = k THEN v ELSE ls[x]]
RemoveItem(ls, k) == [x \in (DOMAIN ls) \ {k} |-> ls[x]]
EmptyStorage == [x \in {} |-> <<>>]

\* JSON.stringify / JSON.parse of plain data (strings, numbers, arrays, objects)
Stringify(v) == [json |-> v]
ParseJSON(s) == s.json

-----------------------------------------------------------------------------
(* DOM elements *)

El(cls, id, key, status, text, kids) ==
    [cls |-> cls, id |-> id, key |-> key, status |-> status, text |-> text, kids |-> kids]

\* app.js:259 showWelcomeMessage's element (also the page's static #welcome-message)
WelcomeDiv == El("welcome-message", "welcome-message", "", "", <<>>, <<>>)

\* app.js:997 / 965 / 573
MessageText(content) == El("message-text", "", "", "", content, <<>>)

\* app.js:987 / 949 / 563: <div class="message {role}">
MessageDiv(role, kids) == El("message", "", role, "", <<>>, kids)

\* app.js:1039
TypingDots == El("typing-indicator", "", "", "", <<>>, <<>>)

\* app.js:1028: <div id="typing-indicator" class="message assistant">
TypingIndicator == El("message", "typing-indicator", "assistant", "", <<>>, <<TypingDots>>)

\* app.js:918
LogContainer(entries) == El("log-container", "current-log-container", "", "", <<>>, entries)

\* app.js:927
LogEntry(message, level) == El("log-entry", "", level, "", message, <<>>)

\* app.js:1064: .tool-call with data-tool-name, its status span and its details
ToolCallDiv(toolName, toolArgs, status) == El("tool-call", "", toolName, status, toolArgs, <<>>)

\* app.js:1117
NotionLinkDiv(title, url) == El("notion-link-display", "", url, "", title, <<>>)

\* classList.contains('assistant') on a child of the container
IsAssistant(el) == el.cls = "message" /\ el.key = "assistant"

\* index of the first element of seq satisfying the id, 0 when none
RECURSIVE IndexOfId(_, _, _)
IndexOfId(seq, id, i) ==
    IF i > Len(seq) THEN 0
    ELSE IF seq[i].id = id THEN i
    ELSE IndexOfId(seq, id, i + 1)

RemoveAt(seq, i) == SubSeq(seq, 1, i - 1) \o SubSeq(seq, i + 1, Len(seq))

\* document.getElementById('typing-indicator'): position in the container, 0 when absent
TypingIndex(dom) == IndexOfId(dom, "typing-indicator", 1)

-----------------------------------------------------------------------------
(* innerHTML: serialisation of the container's children to markup, and the  *)
(* parse of markup back to elements.  Markup is a sequence of tokens: an    *)
(* open tag with its attributes, a text run, a close tag.                   *)

OpenTag(el) == [tok |-> "open", cls |-> el.cls, id |-> el.id, key |-> el.key,
                status |-> el.status, text |-> <<>>]
TextRun(t) == [tok |-> "text", cls |-> "", id |-> "", key |-> "", status |-> "", text |-> t]
CloseTag == [tok |-> "close", cls |-> "", id |-> "", key |-> "", status |-> "", text |-> <<>>]

RECURSIVE GetInnerHTML(_)
GetInnerHTML(els) ==
    IF els = <<>> THEN <<>>
    ELSE LET el == Head(els)
         IN  <<OpenTag(el)>>
                \o (IF el.text # <<>> THEN <<TextRun(el.text)>> ELSE <<>>)
                \o GetInnerHTML(el.kids)
                \o <<CloseTag>>
                \o GetInnerHTML(Tail(els))

\* parse a run of sibling elements; yields the elements and the unread markup
RECURSIVE ParseSiblings(_)
ParseSiblings(ts) ==
    IF ts = <<>> \/ Head(ts).tok # "open" THEN [els |-> <<>>, rest |-> ts]
    ELSE LET open == Head(ts)
             afterOpen == Tail(ts)
             hasText == afterOpen # <<>> /\ Head(afterOpen).tok = "text"
             text == IF hasText THEN Head(afterOpen).text ELSE <<>>
             afterText == IF hasText THEN Tail(afterOpen) ELSE afterOpen
             inner == ParseSiblings(afterText)
             afterClose == IF inner.rest = <<>> THEN <<>> ELSE Tail(inner.rest)
             siblings == ParseSiblings(afterClose)
         IN  [els |-> <<El(open.cls, open.id, open.key, open.status, text, inner.els)>>
                          \o siblings.els,
              rest |-> siblings.rest]

SetInnerHTML(html) == ParseSiblings(html).els

-----------------------------------------------------------------------------
(* The world a handler runs in *)

World == [state |-> state, localStorage |-> localStorage, container |-> container,
          chatHistory |-> chatHistory, controls |-> controls, elements |-> elements,
          fetches |-> fetches]

Commit(w) ==
    /\ state' = w.state
    /\ localStorage' = w.localStorage
    /\ container' = w.container
    /\ chatHistory' = w.chatHistory
    /\ controls' = w.controls
    /\ elements' = w.elements
    /\ fetches' = w.fetches

\* elements.messagesContainer.innerHTML = html: the former children leave the document
setContainerHTML(w, html) ==
    [w EXCEPT !.container = SetInnerHTML(html), !.elements.welcomeMessage = 0]

\* elements.welcomeMessage.classList.add('hidden'), guarded by if (elements.welcomeMessage)
hideWelcomeMessage(w) ==
    IF w.elements.welcomeMessage = 0 THEN w
    ELSE [w EXCEPT !.container[w.elements.welcomeMessage].status = "hidden"]

\* a request handed to fetch(): the endpoint and the JSON body
Request(api, sid, message, messages) ==
    [api |-> api, session_id |-> sid, message |-> message, messages |-> messages]

\* fetch(api, {body}): the request is outstanding until its response arrives
fetch(w, req) == [w EXCEPT !.fetches = @ (+) SetToBag({req})]

\* the response to req arrived
settle(w, req) == [w EXCEPT !.fetches = @ (-) SetToBag({req})]

-----------------------------------------------------------------------------
(* Conversation list (app.js:26-129) *)

\* state.conversations.findIndex(c => c.id === sessionId), 1-based, 0 for -1
RECURSIVE FindIndex(_, _, _)
FindIndex(cs, sid, i) ==
    IF i > Len(cs) THEN 0
    ELSE IF cs[i].id = sid THEN i
    ELSE FindIndex(cs, sid, i + 1)

\* app.js:29
loadConversationList(w) ==
    [w EXCEPT !.state.conversations =
        IF HasItem(w.localStorage, KeyConversations)
        THEN ParseJSON(w.localStorage[KeyConversations])
        ELSE <<>>]

\* app.js:46
saveConversationList(w) ==
    [w EXCEPT !.localStorage =
        SetItem(@, KeyConversations, Stringify(w.state.conversations))]

\* app.js:315: one item per conversation, the item of state.sessionId marked active
renderConversationList(w) ==
    [w EXCEPT !.chatHistory =
        [i \in 1..Len(w.state.conversations) |->
            [id |-> w.state.conversations[i].id,
             active |-> w.state.conversations[i].id = w.state.sessionId]]]

\* app.js:64
addConversationToList(w, sid, title, preview, t) ==
    LET cs == w.state.conversations
        existingIndex == FindIndex(cs, sid, 1)
        fresh == [id |-> sid, title |-> title, preview |-> preview,
                  timestamp |-> t, lastMessageTime |-> t]
        updated == [cs[existingIndex] EXCEPT !.title = title, !.preview = preview,
                                             !.lastMessageTime = t]
        list == IF existingIndex = 0
                THEN <<fresh>> \o cs
                ELSE <<updated>> \o RemoveAt(cs, existingIndex)
    IN  renderConversationList(saveConversationList(
            [w EXCEPT !.state.conversations = list]))

\* state.conversations.filter(c => c.id !== sessionId)
RECURSIVE FilterOut(_, _)
FilterOut(cs, sid) ==
    IF cs = <<>> THEN <<>>
    ELSE (IF Head(cs).id = sid THEN <<>> ELSE <<Head(cs)>>) \o FilterOut(Tail(cs), sid)

-----------------------------------------------------------------------------
(* Snapshots (app.js:496-585) *)

\* a variant of saveMessagesToStorage writing the older format, without the markup
saveMessagesOnly(w, t) ==
    [w EXCEPT !.localStorage =
        SetItem(@, ChatKey(w.state.sessionId),
                Stringify([sessionId |-> w.state.sessionId,
                           messages |-> w.state.messages,
                           messagesHTML |-> <<>>,
                           timestamp |-> t]))]

\* app.js:497
saveMessagesToStorage(w, t) ==
    [w EXCEPT !.localStorage =
        SetItem(@, ChatKey(w.state.sessionId),
                Stringify([sessionId |-> w.state.sessionId,
                           messages |-> w.state.messages,
                           messagesHTML |-> GetInnerHTML(w.container),
                           timestamp |-> t]))]

\* app.js:562: the element renderMessage appends
renderMessage(role, content) == MessageDiv(role, <<MessageText(content)>>)

\* app.js:516
loadMessagesFromStorage(w) ==
    IF ~HasItem(w.localStorage, ChatKey(w.state.sessionId))
    THEN [w EXCEPT !.state.messages = <<>>]
    ELSE LET messagesData == ParseJSON(w.localStorage[ChatKey(w.state.sessionId)])
             msgs == messagesData.messages
             restored == [w EXCEPT !.state.messages = msgs]
         IN  IF messagesData.messagesHTML # <<>>
             THEN setContainerHTML(hideWelcomeMessage(restored), messagesData.messagesHTML)
             ELSE IF msgs # <<>>
             THEN [hideWelcomeMessage(restored) EXCEPT
                        !.container = @ \o [i \in 1..Len(msgs) |->
                                            renderMessage(msgs[i].role, msgs[i].content)]]
             ELSE restored

-----------------------------------------------------------------------------
(* Transcript mutators (app.js:901-1141) *)

\* app.js:1024
addTypingIndicator(w) ==
    IF TypingIndex(w.container) # 0 THEN w
    ELSE [w EXCEPT !.container = Append(@, TypingIndicator)]

\* app.js:1052
removeTypingIndicator(w) ==
    IF TypingIndex(w.container) = 0 THEN w
    ELSE [w EXCEPT !.container = RemoveAt(@, TypingIndex(w.container)),
                   !.elements.welcomeMessage =
                        IF @ > TypingIndex(w.container) THEN @ - 1 ELSE @]

CountRole(msgs, role) == Cardinality({i \in 1..Len(msgs) : msgs[i].role = role})

\* a variant of addMessage that shows the message and keeps it in memory only
addMessageUnsaved(w, role, content, t) ==
    [w EXCEPT !.state.messages = Append(@, [role |-> role, content |-> content]),
              !.container = Append(@, renderMessage(role, content))]

\* app.js:939
addMessage(w, role, content, t) ==
    LET ti == TypingIndex(w.container)
        pushed == [w EXCEPT !.state.messages = Append(@, [role |-> role, content |-> content])]
    IN  IF role = "assistant" /\ ti # 0
        THEN LET kids == w.container[ti].kids
                 li == IndexOfId(kids, "current-log-container", 1)
                 logs == IF li = 0 THEN <<>> ELSE <<[kids[li] EXCEPT !.id = ""]>>
                 messageDiv == MessageDiv(role, logs \o <<MessageText(content)>>)
             IN  saveMessagesToStorage(
                    [pushed EXCEPT !.container = [@ EXCEPT ![ti] = messageDiv]], t)
        ELSE LET appended == [pushed EXCEPT !.container = Append(@, renderMessage(role, content))]
                 saved == saveMessagesToStorage(appended, t)
             IN  IF role = "user" /\ CountRole(saved.state.messages, "user") = 1
                 THEN addConversationToList(saved, saved.state.sessionId,
                                            generateConversationTitle(content),
                                            Substring(content, PreviewBudget), t)
                 ELSE saved

\* a selector: the class, id and data-tool-name an element must have ("" for any)
Selector(cls, id, key) == [cls |-> cls, id |-> id, key |-> key]
Matches(el, sel) ==
    /\ sel.cls = "" \/ el.cls = sel.cls
    /\ sel.id = "" \/ el.id = sel.id
    /\ sel.key = "" \/ el.key = sel.key

\* position <<i, j>> of the first kid, in document order, matching sel; <<0, 0>> when none
RECURSIVE FindKid(_, _, _, _)
FindKid(dom, sel, i, j) ==
    IF i > Len(dom) THEN <<0, 0>>
    ELSE IF j > Len(dom[i].kids) THEN FindKid(dom, sel, i + 1, 1)
    ELSE IF Matches(dom[i].kids[j], sel) THEN <<i, j>>
    ELSE FindKid(dom, sel, i, j + 1)

CurrentLog == Selector("", "current-log-container", "")
Dots == Selector("typing-indicator", "", "")
IsTypingDots(el) == Matches(el, Dots)

\* app.js:902
addLogMessage(w, message, level, t) ==
    LET found == FindKid(w.container, CurrentLog, 1, 1)
        ti == TypingIndex(w.container)
        entry == LogEntry(message, level)
    IN  IF found # <<0, 0>>
        THEN saveMessagesToStorage(
                [w EXCEPT !.container[found[1]].kids[found[2]].kids = Append(@, entry)], t)
        ELSE IF ti # 0
        THEN LET kids == w.container[ti].kids
                 di == FindKid(<<w.container[ti]>>, Dots, 1, 1)[2]
                 kept == IF di = 0 THEN kids ELSE RemoveAt(kids, di)
             IN  saveMessagesToStorage(
                    [w EXCEPT !.container[ti].kids = Append(kept, LogContainer(<<entry>>))], t)
        ELSE w

\* a variant of addToolCall that puts the record before what the message holds
addToolCallFirst(w, toolName, toolArgs, status, t) ==
    LET n == Len(w.container)
    IN  IF n = 0 \/ ~IsAssistant(w.container[n]) THEN w
        ELSE saveMessagesToStorage(
                [w EXCEPT !.container[n].kids =
                            <<ToolCallDiv(toolName, toolArgs, status)>> \o @], t)

\* app.js:1060
addToolCall(w, toolName, toolArgs, status, t) ==
    LET n == Len(w.container)
    IN  IF n = 0 \/ ~IsAssistant(w.container[n]) THEN w
        ELSE saveMessagesToStorage(
                [w EXCEPT !.container[n].kids = Append(@, ToolCallDiv(toolName, toolArgs, status))], t)

\* app.js:1095
updateToolCall(w, toolName, status, t) ==
    LET found == FindKid(w.container, Selector("tool-call", "", toolName), 1, 1)
    IN  IF found = <<0, 0>> THEN saveMessagesToStorage(w, t)
        ELSE saveMessagesToStorage(
                [w EXCEPT !.container[found[1]].kids[found[2]].status = "completed"], t)

\* app.js:1113
addNotionLink(w, title, url, t) ==
    LET n == Len(w.container)
    IN  IF n = 0 \/ ~IsAssistant(w.container[n]) THEN w
        ELSE saveMessagesToStorage(
                [w EXCEPT !.container[n].kids = Append(@, NotionLinkDiv(title, url))], t)

\* a variant of the unlocking that leaves the stop button shown
EnableInputKeepStop(w) ==
    [w EXCEPT !.controls.sendHidden = FALSE,
              !.controls.sendDisabled = FALSE, !.controls.inputDisabled = FALSE]

\* the controls as handleWebSocketMessage 'done', handleStop and the catch of
\* handleSend leave them (app.js:772-776, 802-807, 893-897)
EnableInput(w) ==
    [w EXCEPT !.controls.sendHidden = FALSE, !.controls.stopHidden = TRUE,
              !.controls.sendDisabled = FALSE, !.controls.inputDisabled = FALSE]

\* a variant of the dispatch after which the page is busy
handleWebSocketMessageBusy(w, data, t) ==
    [w EXCEPT !.state.processing = TRUE]

\* a variant of the dispatch that shows an event of unknown type as a message
handleWebSocketMessageShown(w, data, t) ==
    IF data.type \in {"log", "tool_call", "tool_result", "notion_link"} THEN w
    ELSE IF data.type = "done" THEN EnableInput([w EXCEPT !.state.processing = FALSE])
    ELSE addMessage(w, "assistant", data.message \o data.error, t)

\* app.js:739
handleWebSocketMessage(w, data, t) ==
    CASE data.type = "log" ->
            addLogMessage(w, data.message, IF data.level = "" THEN "info" ELSE data.level, t)
      [] data.type = "assistant_message" -> addMessage(w, "assistant", data.message, t)
      [] data.type = "tool_call" -> addToolCall(w, data.tool_name, data.tool_args, "running", t)
      [] data.type = "tool_result" -> updateToolCall(w, data.tool_name, "completed", t)
      [] data.type = "notion_link" -> addNotionLink(w, data.result.title, data.result.url, t)
      [] data.type = "error" -> addMessage(w, "assistant", ErrorPrefix \o data.error, t)
      [] data.type = "done" -> EnableInput([w EXCEPT !.state.processing = FALSE])
      [] OTHER -> w

\* a variant of ws.onmessage that dispatches every frame twice
onmessageTwice(w, frame, t) ==
    IF "json" \in DOMAIN frame
    THEN handleWebSocketMessage(handleWebSocketMessage(w, frame.json, t), frame.json, t)
    ELSE w

\* a variant of ws.onmessage that raises a frame that does not parse to the
\* transcript
onmessageRaised(w, frame, t) ==
    IF "json" \in DOMAIN frame
    THEN handleWebSocketMessage(w, frame.json, t)
    ELSE addMessage(w, "assistant", ErrorPrefix, t)

\* app.js:716-723 ws.onmessage: parse the frame and dispatch it; a frame that
\* does not parse is logged and dropped
onmessage(w, frame, t) ==
    IF "json" \in DOMAIN frame
    THEN handleWebSocketMessage(w, ParseJSON(frame), t)
    ELSE w

-----------------------------------------------------------------------------
(* User-facing handlers: the part that runs before the handler's await, and *)
(* the part that runs when the awaited response arrives.                    *)

\* app.js:786
handleInput(w, value) ==
    [w EXCEPT !.controls.value = value,
              !.controls.sendDisabled = (Trim(value) = <<>>) \/ w.state.processing]

\* a variant of handleSend that does not look at state.processing
handleSendWhileBusy(w, t) ==
    LET message == Trim(w.controls.value)
    IN  IF message = <<>> THEN w
        ELSE LET added == addMessage(hideWelcomeMessage(w), "user", message, t)
                 locked == [added EXCEPT !.controls.value = <<>>,
                                         !.controls.inputDisabled = TRUE,
                                         !.controls.sendHidden = TRUE,
                                         !.controls.stopHidden = FALSE,
                                         !.state.processing = TRUE]
                 typing == addTypingIndicator(locked)
             IN  fetch(typing, Request("/api/chat", typing.state.sessionId, message,
                                       typing.state.messages))

\* app.js:828-877: handleSend up to the await of fetch('/api/chat')
handleSend(w, t) ==
    LET message == Trim(w.controls.value)
    IN  IF message = <<>> \/ w.state.processing THEN w
        ELSE LET added == addMessage(hideWelcomeMessage(w), "user", message, t)
                 locked == [added EXCEPT !.controls.value = <<>>,
                                         !.controls.inputDisabled = TRUE,
                                         !.controls.sendHidden = TRUE,
                                         !.controls.stopHidden = FALSE,
                                         !.state.processing = TRUE]
                 typing == addTypingIndicator(locked)
             IN  fetch(typing, Request("/api/chat", typing.state.sessionId, message,
                                       typing.state.messages))

\* a variant of the catch of handleSend that reports the failure and stays busy
handleSendCatchBusy(w, reason, t) ==
    addMessage(removeTypingIndicator(w), "assistant", SorryPrefix \o reason, t)

\* app.js:886-898: the catch of handleSend
handleSendCatch(w, reason, t) ==
    LET removed == removeTypingIndicator(w)
        added == addMessage(removed, "assistant", SorryPrefix \o reason, t)
    IN  EnableInput([added EXCEPT !.state.processing = FALSE])

\* a variant of handleStop that only asks the server and leaves the page waiting
handleStopRemote(w, t) ==
    IF ~w.state.processing THEN w
    ELSE fetch(w, Request("/api/cancel-chat", w.state.sessionId, <<>>, <<>>))

\* app.js:792-821: handleStop up to the await of fetch('/api/cancel-chat')
handleStop(w, t) ==
    IF ~w.state.processing THEN w
    ELSE LET idle == EnableInput(removeTypingIndicator([w EXCEPT !.state.processing = FALSE]))
             added == addMessage(idle, "assistant", StoppedText, t)
         IN  fetch(added, Request("/api/cancel-chat", added.state.sessionId, <<>>, <<>>))

\* app.js:822-824: handleStop after its fetch settled; a failure is only logged
handleStopResume(w, ok) == w

\* app.js:884: handleSend after a successful response: the answer comes as push events
handleSendResume(w) == w

\* a variant of newChat that does not register the new conversation
newChatUnlisted(w, t, r) ==
    LET newSessionId == generateSessionId(t, r)
        cleared == [w EXCEPT !.state.sessionId = newSessionId,
                             !.localStorage = SetItem(@, KeyCurrent, newSessionId),
                             !.state.messages = <<>>,
                             !.container = <<>>,
                             !.elements.welcomeMessage = 0]
    IN  fetch(cleared, Request("/api/reset-session", newSessionId, <<>>, <<>>))

\* a variant of newChat that does not store the new id as the current one
newChatUnstored(w, t, r) ==
    LET newSessionId == generateSessionId(t, r)
        cleared == [w EXCEPT !.state.sessionId = newSessionId,
                             !.state.messages = <<>>,
                             !.container = <<>>,
                             !.elements.welcomeMessage = 0]
    IN  fetch(addConversationToList(cleared, newSessionId, DefaultTitle, <<>>, t),
              Request("/api/reset-session", newSessionId, <<>>, <<>>))

\* app.js:1173-1192: newChat up to the await of fetch('/api/reset-session')
newChat(w, t, r) ==
    LET newSessionId == generateSessionId(t, r)
        cleared == [w EXCEPT !.state.sessionId = newSessionId,
                             !.localStorage = SetItem(@, KeyCurrent, newSessionId),
                             !.state.messages = <<>>,
                             !.container = <<>>,
                             !.elements.welcomeMessage = 0]
    IN  fetch(addConversationToList(cleared, newSessionId, DefaultTitle, <<>>, t),
              Request("/api/reset-session", newSessionId, <<>>, <<>>))

\* app.js:259: showWelcomeMessage appends the welcome element
showWelcomeMessage(w) ==
    [w EXCEPT !.container = Append(@, WelcomeDiv),
              !.elements.welcomeMessage = Len(w.container) + 1]

\* app.js:1197-1201: newChat after its fetch settled (either way)
newChatResume(w) == [showWelcomeMessage(w) EXCEPT !.controls.value = <<>>]

\* a variant of switchConversation without the early return on the active id
switchConversationAlways(w, sessionId, t) ==
    LET saved == IF w.state.messages # <<>> THEN saveMessagesToStorage(w, t) ELSE w
        switched == [saved EXCEPT !.state.sessionId = sessionId,
                                  !.localStorage = SetItem(@, KeyCurrent, sessionId),
                                  !.state.messages = <<>>,
                                  !.container = <<>>,
                                  !.elements.welcomeMessage = 0]
        loaded == loadMessagesFromStorage(switched)
        shown == IF loaded.state.messages = <<>> THEN showWelcomeMessage(loaded) ELSE loaded
    IN  fetch(shown, Request("/api/restore-session", sessionId, <<>>, shown.state.messages))

\* a variant of switchConversation that saves the outgoing transcript after
\* the active id has changed
switchConversationLateSave(w, sessionId, t) ==
    IF w.state.sessionId = sessionId THEN w
    ELSE LET switched == [w EXCEPT !.state.sessionId = sessionId,
                                   !.localStorage = SetItem(@, KeyCurrent, sessionId)]
             saved == IF w.state.messages # <<>> THEN saveMessagesToStorage(switched, t)
                      ELSE switched
             loaded == loadMessagesFromStorage(
                          [saved EXCEPT !.state.messages = <<>>, !.container = <<>>,
                                        !.elements.welcomeMessage = 0])
             shown == IF loaded.state.messages = <<>> THEN showWelcomeMessage(loaded) ELSE loaded
         IN  fetch(shown, Request("/api/restore-session", sessionId, <<>>, shown.state.messages))

\* app.js:202-245: switchConversation up to the await of fetch('/api/restore-session')
switchConversation(w, sessionId, t) ==
    IF w.state.sessionId = sessionId THEN w
    ELSE LET saved == IF w.state.messages # <<>> THEN saveMessagesToStorage(w, t) ELSE w
             switched == [saved EXCEPT !.state.sessionId = sessionId,
                                       !.localStorage = SetItem(@, KeyCurrent, sessionId),
                                       !.state.messages = <<>>,
                                       !.container = <<>>,
                                       !.elements.welcomeMessage = 0]
             loaded == loadMessagesFromStorage(switched)
             shown == IF loaded.state.messages = <<>> THEN showWelcomeMessage(loaded) ELSE loaded
         IN  fetch(shown, Request("/api/restore-session", sessionId, <<>>, shown.state.messages))

\* app.js:253: switchConversation after its fetch settled (either way)
switchConversationResume(w) == renderConversationList(w)

\* app.js:162-169: saveEdit of editConversationTitle, on the conversation the edit began on
saveEdit(w, sessionId, newTitle, t) ==
    LET i == FindIndex(w.state.conversations, sessionId, 1)
    IN  IF i = 0 THEN w
        ELSE IF Trim(newTitle) # <<>> /\ Trim(newTitle) # w.state.conversations[i].title
        THEN saveConversationList(
                [w EXCEPT !.state.conversations[i].title = Trim(newTitle),
                          !.state.conversations[i].lastMessageTime = t])
        ELSE w

\* app.js:106-129, the confirm() answered by `confirmed`
deleteConversation(w, sessionId, confirmed, t, r) ==
    IF ~confirmed THEN w
    ELSE LET filtered == saveConversationList(
                            [w EXCEPT !.state.conversations = FilterOut(@, sessionId)])
             purged == [filtered EXCEPT !.localStorage = RemoveItem(@, ChatKey(sessionId))]
         IN  IF w.state.sessionId = sessionId
             THEN newChat(purged, t, r)
             ELSE renderConversationList(purged)

-----------------------------------------------------------------------------
(* Page load (app.js:7-24, 460-471, 588-657) *)

\* the static markup of #messages-container that app.js:462-463 looks up
PageMarkup == <<WelcomeDiv>>

\* the controls as the page's markup declares them (app.js:464-466)
PageControls == [value |-> <<>>, inputDisabled |-> FALSE, sendDisabled |-> TRUE,
                 sendHidden |-> FALSE, stopHidden |-> TRUE]

\* app.js:7
getSessionId(ls, t, r) ==
    IF HasItem(ls, KeyCurrent) THEN ls[KeyCurrent] ELSE generateSessionId(t, r)

\* script start and the DOMContentLoaded handler, on the stored data ls; the
\* requests of the page that was open are no longer awaited
PageLoad(ls, t, r) ==
    LET sessionId == getSessionId(ls, t, r)
        w0 == [state |-> [processing |-> FALSE, messages |-> <<>>,
                          sessionId |-> sessionId, conversations |-> <<>>],
               localStorage |-> SetItem(ls, KeyCurrent, sessionId),
               container |-> PageMarkup,
               chatHistory |-> <<>>,
               controls |-> PageControls,
               elements |-> [welcomeMessage |-> IndexOfId(PageMarkup, "welcome-message", 1)],
               fetches |-> EmptyBag]
        w1 == renderConversationList(loadConversationList(w0))
        w2 == loadMessagesFromStorage(w1)
    IN  IF FindIndex(w2.state.conversations, sessionId, 1) = 0 /\ w2.state.messages = <<>>
        THEN addConversationToList(w2, sessionId, DefaultTitle, <<>>, t)
        ELSE w2

\* app.js:704: the socket connectWebSocket creates
\* and no reconnect timer; timers holds the delay of each pending timer, fails
\* (history) the connection attempts that failed since a socket was last open,
\* counted up to MaxFails
Connecting == [connecting |-> 1, open |-> 0, timers |-> <<>>, fails |-> 0]

\* the server before any turn.  wire: the frames sent to the open socket and not
\* yet received, each with the number the server sent it as; owed: the turns the
\* server has accepted and not yet ended with done; sent: how many frames it
\* has emitted; applied: the numbers of the frames the page has dispatched, in
\* dispatch order; lost: the numbers of the frames emitted with no open socket;
\* dropped: the numbers of the frames received that did not parse
Quiet == [wire |-> <<>>, owed |-> 0, sent |-> 0, applied |-> <<>>, lost |-> {},
          dropped |-> {}]

-----------------------------------------------------------------------------
(* Inputs *)

Event(type, message, level, tool_name, tool_args, result, error) ==
    [type |-> type, message |-> message, level |-> level, tool_name |-> tool_name,
     tool_args |-> tool_args, result |-> result, error |-> error]

NoResult == [title |-> <<>>, url |-> ""]
LogEvent == Event("log", <<"l">>, "", "", <<>>, NoResult, <<>>)
AssistantEvent == Event("assistant_message", Hi, "", "", <<>>, NoResult, <<>>)
ToolCallEvent(name) == Event("tool_call", <<>>, "", name, <<"q">>, NoResult, <<>>)
ToolResultEvent(name) == Event("tool_result", <<>>, "", name, <<>>, NoResult, <<>>)
NotionLinkEvent == Event("notion_link", <<>>, "", "", <<>>, [title |-> <<"p">>, url |-> "u"], <<>>)
ErrorEvent == Event("error", <<>>, "", "", <<>>, NoResult, <<"e">>)
DoneEvent == Event("done", <<>>, "", "", <<>>, NoResult, <<>>)
UnknownEvent == Event("ping", <<>>, "", "", <<>>, NoResult, <<>>)

ToolNames == {"search"}

\* events that add a message, events that add an appendage, the others
MessageEvents == {AssistantEvent, ErrorEvent}
AppendageEvents == {LogEvent, NotionLinkEvent} \cup {ToolCallEvent(n) : n \in ToolNames}
OtherEvents == {DoneEvent, UnknownEvent} \cup {ToolResultEvent(n) : n \in ToolNames}

\* a frame on the socket: the JSON text of an event, or text that is not JSON
Frame(ev) == Stringify(ev)
MalformedFrame == [garbage |-> "{"]
IsJSON(frame) == "json" \in DOMAIN frame

InputValues == {Blank, Hello}
Titles == {<<"R">>}

-----------------------------------------------------------------------------
(* Measures the bounds are stated on *)

StoredKeys(ls) == {k \in DOMAIN ls : Len(k) = 2}

RECURSIVE SumOver(_, _)
SumOver(f, S) ==
    IF S = {} THEN 0
    ELSE LET k == CHOOSE x \in S : TRUE IN f[k] + SumOver(f, S \ {k})

\* messages held in memory and in the snapshots of the other conversations
TotalMsgs ==
    LET others == {k \in StoredKeys(localStorage) : k # ChatKey(state.sessionId)}
        lens == [k \in others |-> Len(ParseJSON(localStorage[k]).messages)]
    IN  Len(state.messages) + SumOver(lens, others)

IsAppendage(tok) == tok.cls \in {"log-entry", "tool-call", "notion-link-display"}
CountAppendages(html) == Cardinality({i \in 1..Len(html) : IsAppendage(html[i])})

\* appendages shown and in the snapshots of the other conversations
TotalKids ==
    LET others == {k \in StoredKeys(localStorage) : k # ChatKey(state.sessionId)}
        counts == [k \in others |-> CountAppendages(ParseJSON(localStorage[k]).messagesHTML)]
    IN  CountAppendages(GetInnerHTML(container)) + SumOver(counts, others)

MsgRoom == TotalMsgs < MaxMsgs
KidRoom == TotalKids < MaxKids
ConvRoom == Len(state.conversations) < MaxConvs
FetchRoom == BagCardinality(fetches) < MaxFetches

-----------------------------------------------------------------------------
(* Actions *)

Init ==
    /\ now = 0
    /\ ws = Connecting
    /\ net = Quiet
    /\ script = 0
    /\ \E r \in Rnd :
        LET w == PageLoad(EmptyStorage, 0, r)
        IN  /\ state = w.state
            /\ localStorage = w.localStorage
            /\ container = w.container
            /\ chatHistory = w.chatHistory
            /\ controls = w.controls
            /\ elements = w.elements
            /\ fetches = w.fetches

\* time passes
Tick ==
    /\ now' = now + 1
    /\ UNCHANGED <<state, localStorage, container, chatHistory, controls, elements, fetches, ws, net>>

\* the user edits the message box
HandleInput(value) ==
    /\ ~controls.inputDisabled
    /\ Commit(handleInput(World, value))
    /\ UNCHANGED <<now, ws, net>>

\* the user presses Enter or clicks send
HandleSend ==
    /\ Commit(handleSend(World, now))
    /\ UNCHANGED <<now, ws, net>>

\* /api/chat answered with success
ChatOk(req) ==
    /\ req.api = "/api/chat"
    /\ BagIn(req, fetches)
    /\ Commit(handleSendResume(settle(World, req)))
    /\ UNCHANGED <<now, ws, net>>

\* /api/chat answered with a non-success status, or the fetch rejected
ChatFail(req) ==
    /\ req.api = "/api/chat"
    /\ BagIn(req, fetches)
    /\ Commit(handleSendCatch(settle(World, req), RequestFailed, now))
    /\ UNCHANGED <<now, ws, net>>

\* the user clicks stop
HandleStop ==
    /\ Commit(handleStop(World, now))
    /\ UNCHANGED <<now, ws, net>>

\* /api/cancel-chat settled: answered (ok) or rejected
CancelSettled(req, ok) ==
    /\ req.api = "/api/cancel-chat"
    /\ BagIn(req, fetches)
    /\ Commit(handleStopResume(settle(World, req), ok))
    /\ UNCHANGED <<now, ws, net>>

\* the user clicks "new chat"
NewChat(r) ==
    /\ Commit(newChat(World, now, r))
    /\ UNCHANGED <<now, ws, net>>

\* /api/reset-session settled, with success or failure
ResetSettled(req) ==
    /\ req.api = "/api/reset-session"
    /\ BagIn(req, fetches)
    /\ Commit(newChatResume(settle(World, req)))
    /\ UNCHANGED <<now, ws, net>>

\* the user clicks an item of the rendered conversation list
SwitchConversation(sessionId) ==
    /\ \E i \in DOMAIN chatHistory : chatHistory[i].id = sessionId
    /\ Commit(switchConversation(World, sessionId, now))
    /\ UNCHANGED <<now, ws, net>>

\* /api/restore-session settled, with success or failure
RestoreSettled(req) ==
    /\ req.api = "/api/restore-session"
    /\ BagIn(req, fetches)
    /\ Commit(switchConversationResume(settle(World, req)))
    /\ UNCHANGED <<now, ws, net>>

\* the user renames an item of the rendered conversation list
Rename(sessionId, newTitle) ==
    /\ \E i \in DOMAIN chatHistory : chatHistory[i].id = sessionId
    /\ Commit(saveEdit(World, sessionId, newTitle, now))
    /\ UNCHANGED <<now, ws, net>>

\* the user clicks delete on an item and answers the confirm dialog
DeleteConversation(sessionId, confirmed, r) ==
    /\ \E i \in DOMAIN chatHistory : chatHistory[i].id = sessionId
    /\ Commit(deleteConversation(World, sessionId, confirmed, now, r))
    /\ UNCHANGED <<now, ws, net>>

\* a variant of the scheduling that arms the timer twice
setTimeoutTwice(sockets, delay) ==
    [sockets EXCEPT !.timers = Append(Append(@, delay), delay)]

\* app.js:733 setTimeout(() => connectWebSocket(), 3000)
ReconnectDelay == 3000
setTimeout(sockets, delay) == [sockets EXCEPT !.timers = Append(@, delay)]

\* a variant of onclose that schedules no reconnect
WsCloseForGood ==
    /\ ws.open > 0
    /\ ws' = [ws EXCEPT !.open = @ - 1]
    /\ net' = [net EXCEPT !.wire = <<>>]
    /\ UNCHANGED <<state, localStorage, container, chatHistory, controls, elements, now, fetches>>

\* app.js:711 onopen
WsOpen ==
    /\ ws.connecting > 0
    /\ ws' = [ws EXCEPT !.connecting = @ - 1, !.open = @ + 1, !.fails = 0]
    /\ UNCHANGED <<state, localStorage, container, chatHistory, controls, elements, now, fetches, net>>

\* app.js:730 onclose of a socket that was open; the frames still in flight
\* to it are never delivered
WsClose ==
    /\ ws.open > 0
    /\ ws' = setTimeout([ws EXCEPT !.open = @ - 1], ReconnectDelay)
    /\ net' = [net EXCEPT !.wire = <<>>]
    /\ UNCHANGED <<state, localStorage, container, chatHistory, controls, elements, now, fetches>>

\* app.js:725-730 onerror, onclose of a socket that never opened
WsFail ==
    /\ ws.connecting > 0
    /\ ws' = setTimeout([ws EXCEPT !.connecting = @ - 1,
                                    !.fails = IF @ < MaxFails THEN @ + 1 ELSE @],
                         ReconnectDelay)
    /\ UNCHANGED <<state, localStorage, container, chatHistory, controls, elements, now, fetches, net>>

\* app.js:733 the reconnect timer fires
Reconnect ==
    /\ ws.timers # <<>>
    /\ ws' = [ws EXCEPT !.timers = Tail(@), !.connecting = @ + 1]
    /\ UNCHANGED <<state, localStorage, container, chatHistory, controls, elements, now, fetches, net>>

\* app.js:716 onmessage
OnMessage(frame) ==
    /\ ws.open > 0
    /\ Commit(onmessage(World, frame, now))
    /\ UNCHANGED <<now, ws, net>>

\* the page is loaded again on the stored data
Reload(r) ==
    /\ Commit(PageLoad(localStorage, now, r))
    /\ ws' = Connecting
    /\ net' = [net EXCEPT !.wire = <<>>]
    /\ UNCHANGED now

-----------------------------------------------------------------------------
(* Specifications.  Every specification starts from the page loaded on an   *)
(* empty store and shares the actions above; they differ in the operations  *)
(* and inputs they explore and in the bounds.                               *)

\* a step outside any scripted scenario
Free(A) == A /\ UNCHANGED script

ClockRuns == now < MaxTime
DomFits == Len(container') <= MaxEls

\* Spec: several conversations.  All user operations, every request with its
\* responses, reload, the clock, and the push events that add a message, add
\* an appendage or end the turn.  The socket, once open, stays open: closing
\* it changes nothing but ws and only disables OnMessage.
Next ==
    \/ Free(ClockRuns /\ Tick)
    \/ Free(HandleInput(Hello))
    \/ Free(MsgRoom /\ FetchRoom /\ HandleSend)
    \/ Free(\E req \in BagToSet(fetches) : ChatOk(req))
    \/ Free(\E req \in BagToSet(fetches) : (MsgRoom /\ ChatFail(req)))
    \/ Free(MsgRoom /\ FetchRoom /\ HandleStop)
    \/ Free(\E req \in BagToSet(fetches), ok \in BOOLEAN : CancelSettled(req, ok))
    \/ Free(\E r \in Rnd : (ConvRoom /\ FetchRoom /\ NewChat(r)))
    \/ Free(\E req \in BagToSet(fetches) : (ResetSettled(req) /\ DomFits))
    \/ Free(\E sid \in SessionIds(MaxTime) : (FetchRoom /\ SwitchConversation(sid) /\ DomFits))
    \/ Free(\E req \in BagToSet(fetches) : RestoreSettled(req))
    \/ Free(\E sid \in SessionIds(MaxTime), title \in Titles : Rename(sid, title))
    \/ Free(\E sid \in SessionIds(MaxTime), c \in BOOLEAN, r \in Rnd :
                (FetchRoom /\ DeleteConversation(sid, c, r)))
    \/ Free(WsOpen)
    \/ Free(\E ev \in MessageEvents : (MsgRoom /\ OnMessage(Frame(ev))))
    \/ Free(KidRoom /\ OnMessage(Frame(ToolCallEvent("search"))))
    \/ Free(OnMessage(Frame(DoneEvent)))
    \/ Free(\E r \in Rnd : Reload(r))

Spec == Init /\ [][Next]_vars

-----------------------------------------------------------------------------
(* One conversation, every kind of frame, and a connection that may drop *)

NextTurn ==
    \/ Free(\E value \in InputValues : HandleInput(value))
    \/ Free(MsgRoom /\ FetchRoom /\ HandleSend)
    \/ Free(\E req \in BagToSet(fetches) : ChatOk(req))
    \/ Free(\E req \in BagToSet(fetches) : (MsgRoom /\ ChatFail(req)))
    \/ Free(MsgRoom /\ FetchRoom /\ HandleStop)
    \/ Free(\E req \in BagToSet(fetches), ok \in BOOLEAN : CancelSettled(req, ok))
    \/ Free(WsOpen)
    \/ Free(WsClose)
    \/ Free(WsFail)
    \/ Free(Reconnect)
    \/ Free(\E ev \in MessageEvents : (MsgRoom /\ OnMessage(Frame(ev))))
    \/ Free(\E ev \in AppendageEvents : (KidRoom /\ OnMessage(Frame(ev))))
    \/ Free(\E ev \in OtherEvents : OnMessage(Frame(ev)))
    \/ Free(OnMessage(MalformedFrame))
    \/ Free(\E r \in Rnd : Reload(r))

SpecTurn == Init /\ [][NextTurn]_vars

-----------------------------------------------------------------------------
(* Properties *)

HasSnapshot(sid) == HasItem(localStorage, ChatKey(sid))
Snapshot(sid) == ParseJSON(localStorage[ChatKey(sid)])
ListIds == {state.conversations[i].id : i \in DOMAIN state.conversations}
Idle == ~state.processing
Enabled == ~controls.inputDisabled /\ ~controls.sendHidden /\ controls.stopHidden

\* C2 Durability: whenever the active conversation holds messages, the
\* snapshot stored under its key holds exactly that message list, so an
\* active conversation without a snapshot holds no message.
Durability ==
    /\ state.messages # <<>> =>
          /\ HasSnapshot(state.sessionId)
          /\ Snapshot(state.sessionId).messages = state.messages
          /\ Snapshot(state.sessionId).sessionId = state.sessionId
    /\ ~HasSnapshot(state.sessionId) => state.messages = <<>>

DurabilityWitness ==
    /\ Len(state.messages) = 2
    /\ state.messages[2].role = "assistant"
    /\ HasSnapshot(state.sessionId)
    /\ Snapshot(state.sessionId).messages = state.messages

\* the transcript a page shows after it stored the world w at time t and
\* restored it into an emptied message area
Restored(w, t) ==
    loadMessagesFromStorage([saveMessagesToStorage(w, t) EXCEPT
                                !.state.messages = <<>>,
                                !.container = <<>>,
                                !.elements.welcomeMessage = 0])

\* the page after the user went to the conversation `other` and came back
AwayAndBack(other) ==
    switchConversation(switchConversation(World, other, now), state.sessionId, now)

\* what a message area shows of a transcript: the texts and appendages of its
\* message elements, in document order
RECURSIVE Shown(_)
Shown(dom) ==
    IF dom = <<>> THEN <<>>
    ELSE (IF Head(dom).cls = "message"
          THEN SelectSeq(Head(dom).kids, LAMBDA k : ~IsTypingDots(k))
          ELSE <<>>) \o Shown(Tail(dom))

\* C3 Round trip: storing the active transcript and restoring it gives back
\* the same messages and the same elements, appendages included, in the same
\* order; so does going to another conversation and back, and so does
\* loading the page again.
RoundTrip ==
    /\ Restored(World, now).state.messages = state.messages
    /\ Restored(World, now).container = container
    /\ state.messages # <<>> =>
          /\ \A other \in ListIds \ {state.sessionId} :
                /\ AwayAndBack(other).state.messages = state.messages
                /\ AwayAndBack(other).container = container
          /\ \A r \in Rnd :
                /\ PageLoad(localStorage, now, r).state.messages = state.messages
                /\ Shown(PageLoad(localStorage, now, r).container) = Shown(container)

RoundTripWitness ==
    /\ Len(state.messages) = 1
    /\ TypingIndex(container) # 0
    /\ \E k \in DOMAIN container[TypingIndex(container)].kids :
            container[TypingIndex(container)].kids[k].cls = "tool-call"
    /\ \E other \in ListIds \ {state.sessionId} : AwayAndBack(other).container = container

\* C4 Exclusive activation: exactly one conversation of the list is the
\* active one, and selecting the active conversation changes nothing.
OneActive ==
    Cardinality({i \in DOMAIN state.conversations :
                    state.conversations[i].id = state.sessionId}) = 1

ExclusiveActivation ==
    /\ []OneActive
    /\ [][\A sid \in ListIds :
            (sid = state.sessionId /\ SwitchConversation(sid)) => UNCHANGED vars]_vars

ExclusiveActivationWitness ==
    /\ Len(state.conversations) = 2
    /\ state.conversations[2].id = state.sessionId
    /\ OneActive

\* the page as it would be had the active conversation not been registered
Unregistered ==
    saveConversationList([World EXCEPT !.state.conversations = FilterOut(@, state.sessionId)])

\* C5 Registration: the active conversation always has an entry in the
\* conversation list, in memory and in the stored list, so a conversation
\* that receives its first message is in the list once the message is added;
\* were the active conversation missing from the list, its first user message
\* would put it at the head of the list.
Registration ==
    /\ state.sessionId \in ListIds
    /\ HasItem(localStorage, KeyConversations)
    /\ ParseJSON(localStorage[KeyConversations]) = state.conversations
    /\ (Idle /\ CountRole(state.messages, "user") = 0) =>
          LET sent == handleSend([Unregistered EXCEPT !.controls.value = Hello], now)
          IN  /\ FindIndex(sent.state.conversations, state.sessionId, 1) = 1
              /\ ParseJSON(sent.localStorage[KeyConversations]) = sent.state.conversations

RegistrationWitness ==
    /\ Len(state.conversations) = 2
    /\ state.conversations[1].id = state.sessionId
    /\ state.conversations[1].title = Hello
    /\ state.messages # <<>>

UnchangedAt(k) ==
    /\ HasItem(localStorage, k) <=> HasItem(localStorage', k)
    /\ HasItem(localStorage, k) => localStorage'[k] = localStorage[k]

\* C8 Isolation: a step changes the stored snapshot of no conversation other
\* than the one active when the step begins, except that deleting a
\* conversation removes that conversation's snapshot.
Isolation ==
    [][\A sid \in SessionIds(MaxTime) :
          sid # state.sessionId =>
             \/ UnchangedAt(ChatKey(sid))
             \/ /\ \E r \in Rnd : DeleteConversation(sid, TRUE, r)
                /\ ~HasItem(localStorage', ChatKey(sid))]_vars

IsolationWitness ==
    /\ state.messages # <<>>
    /\ \E sid \in ListIds \ {state.sessionId} :
          HasSnapshot(sid) /\ Snapshot(sid).messages # <<>>
                           /\ Snapshot(sid).messages # state.messages

StoppedMessage == [role |-> "assistant", content |-> StoppedText]
CancelRequests(fs) == {req \in BagToSet(fs) : req.api = "/api/cancel-chat"}
Local == <<state, localStorage, container, chatHistory, controls, elements>>

\* C9 Cancel is local-first: a stop during a turn ends the turn on the page
\* in the same step (not processing, input enabled, placeholder gone, exactly
\* one stopped-notice appended and stored) while the cancel request is still
\* unanswered, and the outcome of the request changes nothing on the page.
CancelLocalFirst ==
    [][/\ (HandleStop /\ state.processing) =>
            /\ ~state'.processing
            /\ ~controls'.inputDisabled /\ ~controls'.sendHidden /\ controls'.stopHidden
            /\ TypingIndex(container') = 0
            /\ state'.messages = Append(state.messages, StoppedMessage)
            /\ ParseJSON(localStorage'[ChatKey(state.sessionId)]).messages = state'.messages
            /\ fetches' = fetches (+) SetToBag({Request("/api/cancel-chat", state.sessionId,
                                                         <<>>, <<>>)})
       /\ \A req \in CancelRequests(fetches), ok \in BOOLEAN :
            CancelSettled(req, ok) => UNCHANGED Local]_vars

CancelLocalFirstWitness ==
    /\ Idle /\ Enabled
    /\ state.messages # <<>>
    /\ state.messages[Len(state.messages)] = StoppedMessage
    /\ CancelRequests(fetches) # {}

ChatRequests(fs) == {req \in BagToSet(fs) : req.api = "/api/chat"}
SorryMessage == [role |-> "assistant", content |-> SorryPrefix \o RequestFailed]

\* C10 Failed send recovers: when the chat request fails the page is, in the
\* same step, not processing with the input enabled and the placeholder
\* removed, and exactly one assistant message reporting the failure is
\* appended to the active conversation and stored.
FailedSendRecovers ==
    [][\A req \in ChatRequests(fetches) :
          ChatFail(req) =>
            /\ ~state'.processing
            /\ ~controls'.inputDisabled /\ ~controls'.sendHidden /\ controls'.stopHidden
            /\ TypingIndex(container') = 0
            /\ state'.sessionId = state.sessionId
            /\ state'.messages = Append(state.messages, SorryMessage)
            /\ container'[Len(container')] = renderMessage("assistant", SorryMessage.content)
            /\ ParseJSON(localStorage'[ChatKey(state.sessionId)]).messages = state'.messages]_vars

FailedSendRecoversWitness ==
    /\ Idle /\ Enabled
    /\ TypingIndex(container) = 0
    /\ Len(state.messages) = 2
    /\ state.messages[2] = SorryMessage
    /\ ChatRequests(fetches) = {}

-----------------------------------------------------------------------------
(* The happy path of one turn, played in order on a fresh conversation,    *)
(* while time passes, the socket opens and the requests are answered       *)

\* the n-th step of the scripted scenario
Step(n, A) == script = n - 1 /\ A /\ script' = n

NextHappy ==
    \/ Step(1, \E r \in Rnd : NewChat(r))
    \/ Step(2, HandleInput(Hello))
    \/ Step(3, controls.value = Hello /\ HandleSend)
    \/ Step(4, OnMessage(Frame(ToolCallEvent("search"))))
    \/ Step(5, OnMessage(Frame(ToolResultEvent("search"))))
    \/ Step(6, OnMessage(Frame(AssistantEvent)))
    \/ Step(7, OnMessage(Frame(DoneEvent)))
    \/ Free(ClockRuns /\ Tick)
    \/ Free(WsOpen)
    \/ Free(\E req \in BagToSet(fetches) : ResetSettled(req))
    \/ Free(\E req \in BagToSet(fetches) : ChatOk(req))

SpecHappy == Init /\ [][NextHappy]_vars

HelloMessage == [role |-> "user", content |-> Hello]
HiMessage == [role |-> "assistant", content |-> Hi]
ToolCallsOf(el) == SelectSeq(el.kids, LAMBDA k : k.cls = "tool-call")

\* C1 Happy path: once the scripted turn has been played to its end, the
\* transcript is the user message "hello" followed by the assistant message
\* "hi", the assistant message carries exactly one tool-call record
\* "search" with status completed, and the turn is idle with the input
\* enabled.
HappyPath ==
    script = 7 =>
        /\ state.messages = <<HelloMessage, HiMessage>>
        /\ \E i \in DOMAIN container :
              /\ IsAssistant(container[i])
              /\ \E k \in DOMAIN container[i].kids : container[i].kids[k] = MessageText(Hi)
              /\ Len(ToolCallsOf(container[i])) = 1
              /\ ToolCallsOf(container[i])[1].key = "search"
              /\ ToolCallsOf(container[i])[1].status = "completed"
        /\ Idle /\ Enabled

-----------------------------------------------------------------------------
(* The conversation list over a longer stretch of time *)

MaxListTime == 2

ListClockRuns == now < MaxListTime

NextList ==
    \/ Free(ListClockRuns /\ Tick)
    \/ Free(\E r \in Rnd : (ConvRoom /\ FetchRoom /\ NewChat(r)))
    \/ Free(\E req \in BagToSet(fetches) : (ResetSettled(req) /\ DomFits))
    \/ Free(HandleInput(Hello))
    \/ Free(MsgRoom /\ FetchRoom /\ HandleSend)
    \/ Free(\E req \in BagToSet(fetches) : ChatOk(req))
    \/ Free(WsOpen)
    \/ Free(OnMessage(Frame(DoneEvent)))
    \/ Free(\E sid \in SessionIds(MaxListTime) : (FetchRoom /\ SwitchConversation(sid) /\ DomFits))
    \/ Free(\E req \in BagToSet(fetches) : RestoreSettled(req))
    \/ Free(\E sid \in SessionIds(MaxListTime), title \in Titles : Rename(sid, title))
    \/ Free(\E sid \in SessionIds(MaxListTime), c \in BOOLEAN, r \in Rnd :
                (FetchRoom /\ DeleteConversation(sid, c, r)))

SpecList == Init /\ [][NextList]_vars

\* C6 Ordering: the conversation list is ordered by lastMessageTime,
\* latest first, in every state; so a renamed conversation, whose
\* lastMessageTime becomes the time of the rename, stands where that time
\* puts it.
ListOrdered ==
    \A i \in 1..(Len(state.conversations) - 1) :
        state.conversations[i].lastMessageTime >= state.conversations[i + 1].lastMessageTime

\* C7 Unique ids: no two entries of the conversation list share an id, and
\* the id a new chat is given is the id of no conversation in the list.
UniqueIds ==
    /\ [](Cardinality(ListIds) = Len(state.conversations))
    /\ [][\A r \in Rnd : NewChat(r) => generateSessionId(now, r) \notin ListIds]_vars

-----------------------------------------------------------------------------
(* Push events and the turn *)

\* a turn is open: the page waits for the answer and shows the typing indicator
OpenTurn == state.processing /\ TypingIndex(container) # 0
ErrorMessage == [role |-> "assistant", content |-> ErrorPrefix \o ErrorEvent.error]

\* C11 Error ends the turn: an error event received while a turn is open
\* replaces the typing indicator by an assistant message with the
\* error-prefixed text and leaves the page idle (processing false) with the
\* input enabled, as done does.
ErrorClosesTurn ==
    [][OpenTurn /\ OnMessage(Frame(ErrorEvent))
        => /\ state'.messages = Append(state.messages, ErrorMessage)
           /\ TypingIndex(container') = 0
           /\ Idle'
           /\ Enabled']_vars

\* the part of C11 the handler does: the open message is closed with the
\* error-prefixed text, which is stored
ErrorClosesMessage ==
    [][OpenTurn /\ OnMessage(Frame(ErrorEvent))
        => /\ state'.messages = Append(state.messages, ErrorMessage)
           /\ TypingIndex(container') = 0
           /\ Snapshot(state.sessionId)'.messages = state'.messages]_vars

\* C12 Idempotent done: a done event received while the page is idle leaves
\* the transcript, the turn state, the store and the input controls as they
\* were.
IdempotentDone ==
    [][Idle /\ OnMessage(Frame(DoneEvent))
        => UNCHANGED <<state, localStorage, container, controls>>]_vars

\* the part of C12 that holds: everything but the send button's disabled flag
IdempotentDoneButSend ==
    [][Idle /\ Enabled /\ OnMessage(Frame(DoneEvent))
        => /\ UNCHANGED <<state, localStorage, container>>
           /\ controls' = [controls EXCEPT !.sendDisabled = FALSE]]_vars

-----------------------------------------------------------------------------
(* The server's end of the connection.  The server accepts a chat request, *)
(* emits the events of the turn and ends it with done; what it emits goes   *)
(* to the open socket, frame by frame and in order, and is lost when no     *)
(* socket is open.  The page neither asks for a replay nor keeps a buffer   *)
(* (onopen, app.js:711-714, only logs), so nothing else reaches onmessage.  *)

\* the server emits a frame
Emit(frame) ==
    LET k == net.sent + 1
    IN  IF ws.open > 0
        THEN [net EXCEPT !.sent = k, !.wire = Append(@, [seq |-> k, frame |-> frame])]
        ELSE [net EXCEPT !.sent = k, !.lost = @ \cup {k}]

\* frames in flight that carry an event of the set evs
InFlight(evs) ==
    Cardinality({i \in DOMAIN net.wire :
                    IsJSON(net.wire[i].frame) /\ ParseJSON(net.wire[i].frame) \in evs})

\* the frames the server emits during a turn
TurnFrames == {Frame(AssistantEvent), Frame(ErrorEvent), Frame(ToolCallEvent("search")),
               MalformedFrame}

\* the transcript has room for the frame once the frames in flight are applied
FrameFits(frame) ==
    /\ frame \in {Frame(ev) : ev \in MessageEvents} => TotalMsgs + InFlight(MessageEvents) < MaxMsgs
    /\ frame \in {Frame(ev) : ev \in AppendageEvents}
            => TotalKids + InFlight(AppendageEvents) < MaxKids

\* /api/chat answered with success: the server has taken the turn
Accept(req) ==
    /\ req.api = "/api/chat"
    /\ BagIn(req, fetches)
    /\ Commit(handleSendResume(settle(World, req)))
    /\ net' = [net EXCEPT !.owed = @ + 1]
    /\ UNCHANGED <<now, ws>>

\* the server emits an event of a turn it has taken
ServerEmit(frame) ==
    /\ net.owed > 0
    /\ net' = Emit(frame)
    /\ UNCHANGED <<state, localStorage, container, chatHistory, controls, elements, now,
                   fetches, ws>>

\* the server ends a turn
ServerDone ==
    /\ net.owed > 0
    /\ net' = [Emit(Frame(DoneEvent)) EXCEPT !.owed = @ - 1]
    /\ UNCHANGED <<state, localStorage, container, chatHistory, controls, elements, now,
                   fetches, ws>>

\* app.js:716 onmessage for the oldest frame in flight
Receive ==
    /\ ws.open > 0
    /\ net.wire # <<>>
    /\ Commit(onmessage(World, Head(net.wire).frame, now))
    /\ net' = [net EXCEPT !.wire = Tail(@), !.applied = Append(@, Head(net.wire).seq),
                          !.dropped = IF IsJSON(Head(net.wire).frame) THEN @
                                      ELSE @ \cup {Head(net.wire).seq}]
    /\ UNCHANGED <<now, ws>>

NextNet ==
    \/ Free(HandleInput(Hello))
    \/ Free(MsgRoom /\ HandleSend)
    \/ Free(\E req \in BagToSet(fetches) : Accept(req))
    \/ Free(\E req \in BagToSet(fetches) : (MsgRoom /\ ChatFail(req)))
    \/ Free(\E frame \in TurnFrames :
                (net.sent < MaxSent /\ FrameFits(frame) /\ ServerEmit(frame)))
    \/ Free(ServerDone)
    \/ Free(Receive)
    \/ Free(WsOpen)
    \/ Free(WsClose)
    \/ Free(WsFail)
    \/ Free(Reconnect)

\* what the environment owes: a request is answered, a frame in flight to an
\* open socket arrives, the server ends the turns it took, a timer fires, and
\* a connection attempt either succeeds or fails
Settles == \E req \in BagToSet(fetches) : (Accept(req) \/ (MsgRoom /\ ChatFail(req)))
Delivery ==
    /\ WF_vars(Free(Settles))
    /\ WF_vars(Free(Receive))
    /\ WF_vars(Free(ServerDone))
    /\ WF_vars(Free(Reconnect))
    /\ WF_vars(Free(WsOpen \/ WsFail))

\* SpecNet: connection attempts may fail for ever
SpecNet == Init /\ [][NextNet]_vars /\ Delivery

\* SpecNetFair: of infinitely many connection attempts one succeeds
SpecNetFair == Init /\ [][NextNet]_vars /\ Delivery /\ SF_vars(Free(WsOpen))

LastMessage == state.messages[Len(state.messages)]

\* the three failures of a turn, as the state they leave
SendFailed == state.messages # <<>> /\ LastMessage = SorryMessage
ErrorShown == state.processing /\ state.messages # <<>> /\ LastMessage = ErrorMessage
Dropped == state.processing /\ ws.timers # <<>>

\* C13 Recovery: after a failed send, after an error event, and after the
\* connection closed while the turn was in progress, the page is eventually
\* idle with the input enabled, without the user doing anything, provided
\* requests are answered, frames in flight to an open socket arrive, the
\* server ends its turns and reconnection eventually succeeds.
Recovery == (SendFailed \/ ErrorShown \/ Dropped) ~> (Idle /\ Enabled)

\* the part of C13 that holds: a failed send leaves the page idle and enabled
FailedSendIsIdle == SendFailed => Idle /\ Enabled

\* live sockets: connecting or open
Sockets == ws.connecting + ws.open

\* C14 Reconnection: every step in which a socket goes away schedules one
\* reconnect timer with the delay of 3000 ms, whatever the number of failed
\* attempts, so that there is always exactly one socket or one pending
\* timer; and whenever no socket is open a connection attempt is eventually
\* under way, also when every attempt fails.
Reconnection ==
    /\ [](Sockets + Len(ws.timers) = 1)
    /\ [](\A i \in DOMAIN ws.timers : ws.timers[i] = 3000)
    /\ [][Sockets' < Sockets => ws'.timers = Append(ws.timers, 3000)]_vars
    /\ (ws.open = 0) ~> (ws.connecting > 0)

ReconnectionWitness == ws.fails = MaxFails /\ ws.connecting > 0

\* what the page is after one dispatch of the frame
Dispatched(frame) ==
    IF IsJSON(frame) THEN handleWebSocketMessage(World, ParseJSON(frame), now) ELSE World

\* C15 Exactly once, in order: a frame is dispatched when it is the oldest
\* frame in flight, once, and leaves the wire; so the dispatched frames are
\* in the order the server sent them, none twice, and none of them was
\* emitted while no socket was open; the steps of the connection (open,
\* close, failure, reconnect) dispatch nothing and leave the page as it is.
ExactlyOnce ==
    /\ [](\A i, j \in DOMAIN net.applied : i < j => net.applied[i] < net.applied[j])
    /\ [](\A i \in DOMAIN net.applied : net.applied[i] \notin net.lost)
    /\ [][net'.applied # net.applied
            => /\ net.wire # <<>>
               /\ net'.applied = Append(net.applied, Head(net.wire).seq)
               /\ net'.wire = Tail(net.wire)
               /\ state' = Dispatched(Head(net.wire).frame).state
               /\ localStorage' = Dispatched(Head(net.wire).frame).localStorage
               /\ container' = Dispatched(Head(net.wire).frame).container
               /\ controls' = Dispatched(Head(net.wire).frame).controls]_vars
    /\ [][ws' # ws => /\ UNCHANGED Local
                      /\ net'.applied = net.applied]_vars

\* a frame was dispatched, the socket closed, a frame was emitted and lost,
\* and after the reconnect a later frame was dispatched
ExactlyOnceWitness ==
    \E k \in net.lost : \E i, j \in DOMAIN net.applied :
        net.applied[i] < k /\ k < net.applied[j]

-----------------------------------------------------------------------------
(* One conversation, with room for several appendages and a second turn *)

MaxToolMsgs == 3    \* messages of the transcript
MaxToolKids == 3    \* appendages of the transcript
Tools == {"search", "fetch"}
WarnEvent == Event("log", <<"m">>, "warning", "", <<>>, NoResult, <<>>)
LogEvents == {LogEvent, WarnEvent}

ToolMsgRoom == TotalMsgs < MaxToolMsgs
ToolKidRoom == TotalKids < MaxToolKids

NextTools ==
    \/ Free(HandleInput(Hello))
    \/ Free(ToolMsgRoom /\ HandleSend)
    \/ Free(\E req \in BagToSet(fetches) : ChatOk(req))
    \/ Free(WsOpen)
    \/ Free(ToolMsgRoom /\ OnMessage(Frame(AssistantEvent)))
    \/ Free(\E n \in Tools : (ToolKidRoom /\ OnMessage(Frame(ToolCallEvent(n)))))
    \/ Free(\E n \in Tools : OnMessage(Frame(ToolResultEvent(n))))
    \/ Free(\E ev \in LogEvents : (ToolKidRoom /\ OnMessage(Frame(ev))))
    \/ Free(ToolKidRoom /\ OnMessage(Frame(NotionLinkEvent)))
    \/ Free(OnMessage(Frame(DoneEvent)))

SpecTools == Init /\ [][NextTools]_vars

\* the open assistant message: the placeholder the turn's appendages go to
OpenMessage == container[TypingIndex(container)]

\* the tool-call records of an element for one tool name, in document order
RecordsOf(el, n) == SelectSeq(el.kids, LAMBDA k : k.cls = "tool-call" /\ k.key = n)

\* C16 One record per tool: the open assistant message never holds two
\* tool-call records of one tool name; a tool_call event for a name that has
\* a record there leaves that name with the single record of the event, with
\* status running and the event's args.
OneRecordPerTool ==
    /\ [](TypingIndex(container) # 0 => \A n \in Tools : Len(RecordsOf(OpenMessage, n)) <= 1)
    /\ [][\A n \in Tools :
            (/\ TypingIndex(container) # 0
             /\ RecordsOf(OpenMessage, n) # <<>>
             /\ OnMessage(Frame(ToolCallEvent(n))))
            => RecordsOf(OpenMessage, n)'
                    = <<ToolCallDiv(n, ToolCallEvent(n).tool_args, "running")>>]_vars

\* the container with the first record named n of the open message completed
OpenRecordCompleted(n) ==
    LET ti == TypingIndex(container)
        j == FindKid(<<OpenMessage>>, Selector("tool-call", "", n), 1, 1)[2]
    IN  [container EXCEPT ![ti].kids[j].status = "completed"]

\* C17 Result goes to the open message: a tool_result event for the name n
\* completes the record named n of the open assistant message and nothing
\* else; when the open message has no such record, or no message is open,
\* the transcript stays as it is.
ResultCompletesOpenRecord ==
    [][\A n \in Tools :
        OnMessage(Frame(ToolResultEvent(n)))
        => /\ state'.messages = state.messages
           /\ container' = IF TypingIndex(container) # 0 /\ RecordsOf(OpenMessage, n) # <<>>
                           THEN OpenRecordCompleted(n)
                           ELSE container]_vars

\* the part of C17 that holds: without any record named n in the document
\* the transcript is unchanged
ResultWithoutRecord ==
    [][\A n \in Tools :
        (/\ FindKid(container, Selector("tool-call", "", n), 1, 1) = <<0, 0>>
         /\ OnMessage(Frame(ToolResultEvent(n))))
        => /\ state'.messages = state.messages
           /\ container' = container]_vars

\* the appendages of a message in the order the page shows them: the entries
\* of a log block stand where the block stands
RECURSIVE Flatten(_)
Flatten(kids) ==
    IF kids = <<>> THEN <<>>
    ELSE LET k == Head(kids)
         IN  (IF k.cls = "log-container" THEN k.kids
              ELSE IF k.cls \in {"tool-call", "notion-link-display"} THEN <<k>>
              ELSE <<>>) \o Flatten(Tail(kids))

Appendages(el) == Flatten(el.kids)
LogEntries(el) == SelectSeq(Appendages(el), LAMBDA k : k.cls = "log-entry")
Cards(el) == SelectSeq(Appendages(el), LAMBDA k : k.cls # "log-entry")

\* the element an appendage event adds
Appendage(ev) ==
    CASE ev.type = "log" -> LogEntry(ev.message, IF ev.level = "" THEN "info" ELSE ev.level)
      [] ev.type = "tool_call" -> ToolCallDiv(ev.tool_name, ev.tool_args, "running")
      [] ev.type = "notion_link" -> NotionLinkDiv(ev.result.title, ev.result.url)

ToolAppendageEvents == LogEvents \cup {NotionLinkEvent} \cup {ToolCallEvent(n) : n \in Tools}

\* the appendages with one more log entry at the end of the log block, which
\* is at the end of everything when there is no block yet
WithLogEntry(shown, entry) ==
    LET logs == {i \in DOMAIN shown : shown[i].cls = "log-entry"}
        p == IF logs = {} THEN Len(shown) ELSE CHOOSE i \in logs : \A j \in logs : j <= i
    IN  SubSeq(shown, 1, p) \o <<entry>> \o SubSeq(shown, p + 1, Len(shown))

\* no tool-call record is shown completed that was not there, at the same
\* place of the open message, before the step
NoNewCompleted ==
    TypingIndex(container) # 0 /\ TypingIndex(container') # 0
        => \A j \in DOMAIN Cards(OpenMessage') :
                Cards(OpenMessage')[j].status = "completed"
                    => j \in DOMAIN Cards(OpenMessage) /\ Cards(OpenMessage)[j].cls = "tool-call"

\* C18 as stated.  Appendage ordering: each appendage event of an open turn
\* puts its element after all the appendages the open message shows, of
\* whatever kind; and no step shows a tool-call record completed that the
\* message did not hold before.
ArrivalOrder ==
    [][/\ \A ev \in ToolAppendageEvents :
            (TypingIndex(container) # 0 /\ OnMessage(Frame(ev)))
                => Appendages(OpenMessage') = Append(Appendages(OpenMessage), Appendage(ev))
       /\ NoNewCompleted]_vars

\* C18 as the code has it.  Log entries are shown in arrival order inside one
\* log block, tool-call records and link cards in arrival order after
\* everything the message holds; a log entry that arrives after a record or
\* card is shown in the block, before it.  No step shows a tool-call record
\* completed that the message did not hold before.
OrderWithinKind ==
    [][/\ \A ev \in ToolAppendageEvents :
            (TypingIndex(container) # 0 /\ OnMessage(Frame(ev)))
                => IF ev.type = "log"
                   THEN /\ LogEntries(OpenMessage') = Append(LogEntries(OpenMessage), Appendage(ev))
                        /\ Cards(OpenMessage') = Cards(OpenMessage)
                        /\ Appendages(OpenMessage')
                                = WithLogEntry(Appendages(OpenMessage), Appendage(ev))
                   ELSE Appendages(OpenMessage')
                                = Append(Appendages(OpenMessage), Appendage(ev))
       /\ NoNewCompleted]_vars

\* an open message with two log entries in its block and a tool-call record
\* after the block: what is shown when the record arrived between the two
\* entries, and when it arrived after them
OrderWithinKindWitness ==
    /\ TypingIndex(container) # 0
    /\ LogEntries(OpenMessage) = <<Appendage(LogEvent), Appendage(WarnEvent)>>
    /\ \E n \in Tools : OpenMessage.kids = <<LogContainer(LogEntries(OpenMessage)),
                                             ToolCallDiv(n, ToolCallEvent(n).tool_args, "running")>>

-----------------------------------------------------------------------------
(* One conversation and messages around the lengths 30 and 50 *)

Digits == <<"0", "1", "2", "3", "4", "5", "6", "7", "8", "9">>

\* a text of n characters, each telling its position
Letters(n) == [i \in 1..n |-> Digits[(i % 10) + 1]]

\* what the user types: short, 30, 31, 50 and 51 characters, and 30 and 31
\* characters between blanks
TitleInputs ==
    {Hello, Letters(30), Letters(31), Letters(50), Letters(51),
     <<" ">> \o Letters(30) \o <<" ">>, <<" ">> \o Letters(31) \o <<" ">>}

NextTitle ==
    \/ Free(\E value \in TitleInputs : HandleInput(value))
    \/ Free(MsgRoom /\ HandleSend)
    \/ Free(\E req \in BagToSet(fetches) : ChatOk(req))
    \/ Free(WsOpen)
    \/ Free(OnMessage(Frame(DoneEvent)))
    \/ Free(\E sid \in SessionIds(MaxTime), title \in Titles : Rename(sid, title))

SpecTitle == Init /\ [][NextTitle]_vars

\* the list entry of the active conversation
ActiveEntry == state.conversations[FindIndex(state.conversations, state.sessionId, 1)]

\* the message handleSend takes from the message box
Content == Trim(controls.value)

\* the step sends the content of the message box as a user message
Sends == Trim(controls.value) # <<>> /\ ~state.processing /\ HandleSend

\* C19 Title derivation: the send of the first user message of a
\* conversation makes the title the message when it has at most 30
\* characters and else its first 30 characters followed by "...", and makes
\* the preview its first 50 characters; the send of a later user message
\* leaves title and preview as they are, and so does every step that is not
\* a rename once the conversation has a user message.
TitleDerivation ==
    /\ [][(Sends /\ CountRole(state.messages, "user") = 0)
            => /\ ActiveEntry'.title
                    = IF Len(Content) <= 30 THEN Content
                      ELSE SubSeq(Content, 1, 30) \o <<".", ".", ".">>
               /\ ActiveEntry'.preview
                    = IF Len(Content) <= 50 THEN Content ELSE SubSeq(Content, 1, 50)]_vars
    /\ [][(/\ CountRole(state.messages, "user") > 0
           /\ ~(\E sid \in SessionIds(MaxTime), title \in Titles : Rename(sid, title)))
            => /\ ActiveEntry'.title = ActiveEntry.title
               /\ ActiveEntry'.preview = ActiveEntry.preview]_vars

\* a conversation whose first message had 51 characters, listed under its
\* first 30 characters and "...", with a second user message sent
TitleDerivationWitness ==
    /\ CountRole(state.messages, "user") = 2
    /\ state.messages[1].content = Letters(51)
    /\ ActiveEntry.title = Letters(30) \o Ellipsis
    /\ ActiveEntry.preview = Letters(50)

-----------------------------------------------------------------------------
(* Delete *)

\* the conversation list as stored
StoredList == ParseJSON(localStorage[KeyConversations])
StoredIds == {StoredList[i].id : i \in DOMAIN StoredList}

\* what a confirmed delete of sid leaves
Deleted(sid) ==
    /\ sid \notin ListIds'
    /\ sid \notin StoredIds'
    /\ ~HasSnapshot(sid)'
    /\ IF state.sessionId = sid
       THEN /\ state'.sessionId \notin ListIds
            /\ state'.sessionId \in StoredIds'
            /\ localStorage'[KeyCurrent] = state'.sessionId
            /\ state'.messages = <<>>
            /\ container' = <<>>
            /\ ~HasItem(localStorage', ChatKey(state'.sessionId))
       ELSE UNCHANGED <<container>> /\ state'.sessionId = state.sessionId
                                    /\ state'.messages = state.messages

\* what a declined delete leaves
Kept == UNCHANGED <<state, localStorage, container, chatHistory>>

\* C20 Delete: a delete the user declines changes neither the list, the
\* store, the active id nor the transcript; a delete the user confirms takes
\* the entry of X out of the list in memory and in the store and removes the
\* snapshot of X, and when X was active a conversation with a new id and no
\* messages is listed and active.
DeleteActsOnConfirm ==
    [][\A sid \in SessionIds(MaxListTime), r \in Rnd :
        /\ DeleteConversation(sid, FALSE, r) => Kept
        /\ DeleteConversation(sid, TRUE, r) => Deleted(sid)]_vars

\* C20 when the id newChat draws is not in the list (see C7)
DeleteWithFreshId ==
    [][\A sid \in SessionIds(MaxListTime), r \in Rnd :
        /\ DeleteConversation(sid, FALSE, r) => Kept
        /\ (generateSessionId(now, r) \notin ListIds /\ DeleteConversation(sid, TRUE, r))
                => Deleted(sid)]_vars

-----------------------------------------------------------------------------
(* Create and switch *)

\* what newChat leaves: the new id at the head of the list as it was, the
\* list and the id stored, no messages, and one more reset request for the id
Created ==
    /\ state'.sessionId \notin ListIds
    /\ Len(state'.conversations) = Len(state.conversations) + 1
    /\ state'.conversations[1].id = state'.sessionId
    /\ Tail(state'.conversations) = state.conversations
    /\ StoredList' = state'.conversations
    /\ localStorage'[KeyCurrent] = state'.sessionId
    /\ state'.messages = <<>>
    /\ fetches' = fetches (+) SetToBag({Request("/api/reset-session", state'.sessionId,
                                                <<>>, <<>>)})

\* C21 Create: newChat makes a conversation with an id that no listed
\* conversation has, puts it at the head of the list, stores the list and
\* the active id, leaves the transcript in memory empty and issues a reset
\* request with the new id; the settling of that request, with success or
\* failure, leaves the list, the active id, the messages and the store as
\* they are.
NewChatCreates ==
    /\ [][\A r \in Rnd : NewChat(r) => Created]_vars
    /\ [][\A req \in BagToSet(fetches) : ResetSettled(req)
            => UNCHANGED <<state, localStorage, chatHistory>>]_vars

\* C21 when the id newChat draws is not in the list (see C7)
NewChatWithFreshId ==
    /\ [][\A r \in Rnd : (generateSessionId(now, r) \notin ListIds /\ NewChat(r))
            => Created]_vars
    /\ [][\A req \in BagToSet(fetches) : ResetSettled(req)
            => UNCHANGED <<state, localStorage, chatHistory>>]_vars

\* the step is a switch to the listed conversation sid, which is not active
SwitchesTo(sid) == sid # state.sessionId /\ SwitchConversation(sid)

\* the messages stored for sid, none when it has no snapshot
StoredMessages(sid) == IF HasSnapshot(sid) THEN Snapshot(sid).messages ELSE <<>>

\* target is active with its stored messages, and one more restore request
\* carries its id and those messages
Activated(sid) ==
    /\ state'.sessionId = sid
    /\ localStorage'[KeyCurrent] = sid
    /\ state'.messages = StoredMessages(sid)
    /\ fetches' = fetches (+) SetToBag({Request("/api/restore-session", sid, <<>>,
                                                StoredMessages(sid))})

\* the outgoing transcript, messages and markup, is what is stored under the
\* outgoing id after the step
OutgoingStored ==
    /\ HasItem(localStorage', ChatKey(state.sessionId))
    /\ ParseJSON(localStorage'[ChatKey(state.sessionId)]).messages = state.messages
    /\ ParseJSON(localStorage'[ChatKey(state.sessionId)]).messagesHTML = GetInnerHTML(container)

\* C22 as stated.  Switch: a switch to a conversation that is not active
\* stores the outgoing transcript under the outgoing id, makes the target
\* active with the messages of its snapshot (none without a snapshot) and
\* issues a restore request with the target's id and those messages; the
\* settling of that request, with success or failure, leaves state, store
\* and transcript as they are.
SwitchStoresOutgoing ==
    /\ [][\A sid \in SessionIds(MaxTime) : SwitchesTo(sid) => OutgoingStored /\ Activated(sid)]_vars
    /\ [][\A req \in BagToSet(fetches) : RestoreSettled(req)
            => UNCHANGED <<state, localStorage, container>>]_vars

\* C22 as the code has it.  The outgoing transcript is stored when it has at
\* least one message; an outgoing conversation without messages is not
\* written, and what is stored under its id, if anything, stays.
SwitchStoresMessages ==
    /\ [][\A sid \in SessionIds(MaxTime) :
            SwitchesTo(sid)
            => /\ state.messages # <<>> => OutgoingStored
               /\ state.messages = <<>> => UnchangedAt(ChatKey(state.sessionId))
               /\ Activated(sid)]_vars
    /\ [][\A req \in BagToSet(fetches) : RestoreSettled(req)
            => UNCHANGED <<state, localStorage, container>>]_vars

\* a switch away from a conversation with messages has happened: the other
\* listed conversation holds them in its snapshot and the restore request
\* is outstanding
SwitchStoresMessagesWitness ==
    /\ \E sid \in ListIds \ {state.sessionId} :
            HasSnapshot(sid) /\ Snapshot(sid).messages # <<>>
    /\ \E req \in BagToSet(fetches) :
            req.api = "/api/restore-session" /\ req.session_id = state.sessionId

-----------------------------------------------------------------------------
(* Events and the idle page *)

\* the events that add or alter an appendage
RecordEvents ==
    ToolAppendageEvents \cup {ToolResultEvent(n) : n \in Tools}

\* a turn was opened in the active conversation and is over
TurnClosed ==
    /\ Idle
    /\ \E i \in DOMAIN state.messages : state.messages[i].role = "user"

\* C23 Closed turns are closed: an appendage event (log, tool_call,
\* tool_result, notion_link) that arrives while the page is idle, after a
\* turn has completed, changes no element of the transcript.
ClosedMessagesKept ==
    [][\A ev \in RecordEvents :
         (TurnClosed /\ OnMessage(Frame(ev))) => container' = container]_vars

-----------------------------------------------------------------------------
(* One turn at a time *)

\* the page with the given text in the message box
Typed(v) == [World EXCEPT !.controls.value = v]

\* C24 At most one turn is open at a time: a send attempt while a turn is in
\* progress, whatever the message box holds, and a send attempt with an empty
\* or whitespace-only message, is rejected: transcript, turn state, store and
\* controls stay as they are and no request is issued.
SendRejected ==
    \A v \in InputValues :
        (state.processing \/ Trim(v) = <<>>) => handleSend(Typed(v), now) = Typed(v)

\* a turn is in progress: the user's message is in the transcript and its
\* send request is pending
SendRejectedWitness ==
    /\ state.processing
    /\ state.messages # <<>>
    /\ \E req \in BagToSet(fetches) : req.api = "/api/chat"

\* C25 From Idle the only way out is a send: a step that takes the page from
\* idle to busy is the sending of a non-empty message; no push event, cancel,
\* switch, create, rename or delete does it.
OnlySendLeavesIdle ==
    [][(Idle /\ ~Idle') => Sends]_vars

\* the page is idle after a push event handled at idle (an answer with no
\* question before it) and after a switch or a create
OnlySendLeavesIdleWitness ==
    /\ Idle
    /\ state.messages # <<>>
    /\ state.messages[1].role = "assistant"
    /\ Len(state.conversations) > 1

-----------------------------------------------------------------------------
(* Frames that are not events *)

\* the oldest frame in flight is received and does not parse
ReceivesMalformed == Receive /\ ~IsJSON(Head(net.wire).frame)

\* the oldest frame in flight is received, parses, and comes after a frame
\* that did not
ReceivesAfterMalformed ==
    Receive /\ IsJSON(Head(net.wire).frame) /\ net.dropped # {}

\* C26 A push payload that does not parse is dropped: transcript, turn state,
\* conversation list, store, controls and socket stay as they are and the
\* frame leaves the wire; an event received after it is dispatched as any
\* other.
MalformedDropped ==
    /\ [][ReceivesMalformed
            => /\ UNCHANGED <<state, localStorage, container, chatHistory, controls,
                              fetches, ws>>
               /\ net'.wire = Tail(net.wire)]_vars
    /\ [][ReceivesAfterMalformed
            => /\ state' = Dispatched(Head(net.wire).frame).state
               /\ localStorage' = Dispatched(Head(net.wire).frame).localStorage
               /\ container' = Dispatched(Head(net.wire).frame).container
               /\ controls' = Dispatched(Head(net.wire).frame).controls]_vars

\* of the two frames received in the open turn the first did not parse and
\* the second is the answer now in the transcript
MalformedDroppedWitness ==
    /\ state.processing
    /\ Len(net.applied) = 2
    /\ net.applied[1] \in net.dropped
    /\ net.applied[2] \notin net.dropped
    /\ state.messages = <<HelloMessage, HiMessage>>

\* events of a type the page does not know, one of them with a text
UnknownEvents == {UnknownEvent, [AssistantEvent EXCEPT !.type = "message"]}

\* C27 A push event of a type other than log, assistant_message, tool_call,
\* tool_result, notion_link, error and done is ignored: the transcript, the
\* turn state, the conversation list, the store and the controls are as they
\* were.
UnknownIgnored ==
    \A ev \in UnknownEvents : onmessage(World, Frame(ev), now) = World

\* a turn is open, its placeholder is in the transcript, and an event of
\* unknown type is handled without effect
UnknownIgnoredWitness ==
    /\ state.processing
    /\ TypingIndex(container) # 0
    /\ onmessage(World, Frame(UnknownEvent), now) = World

-----------------------------------------------------------------------------
(* Messages and the list *)

\* a message is appended to the transcript of the active, listed conversation
Appends ==
    /\ state.sessionId \in ListIds
    /\ state'.sessionId = state.sessionId
    /\ Len(state'.messages) = Len(state.messages) + 1

\* the list entry of the active conversation carries the current time, in
\* memory and in the store
Stamped ==
    /\ \E i \in DOMAIN state'.conversations :
           /\ state'.conversations[i].id = state.sessionId
           /\ state'.conversations[i].lastMessageTime = now
    /\ HasItem(localStorage', KeyConversations)
    /\ ParseJSON(localStorage'[KeyConversations]) = state'.conversations

\* C28 Every new message, user or assistant, first or later, updates the
\* lastMessageTime of its conversation in the persisted list.
EveryMessageStamps ==
    [][Appends => Stamped]_vars

-----------------------------------------------------------------------------
(* The turn and the active conversation *)

\* the user switches to another conversation or creates one
ChangesConversation ==
    \/ \E sid \in SessionIds(MaxTime) : SwitchesTo(sid)
    \/ \E r \in Rnd : NewChat(r)

\* C29 Turn state is per conversation: after a switch or a create made while
\* a turn is open in the previous conversation, the newly active
\* conversation is idle, with the input enabled.
TurnPerConversation ==
    [][(state.processing /\ ChangesConversation /\ state'.sessionId # state.sessionId)
         => (Idle' /\ Enabled')]_vars

\* a message event is handled
MessageArrives == \E ev \in MessageEvents : OnMessage(Frame(ev))

\* C30 Events carry no session id and go to the conversation that is active
\* when they arrive: a message event is appended to the active transcript
\* and stored under the active id, and the stored transcripts of the other
\* conversations stay as they are; so after a switch or a create made while
\* a turn is open, the answer to the previous conversation's question ends
\* up in the new one.
EventsGoToActive ==
    [][MessageArrives
         => /\ state'.sessionId = state.sessionId
            /\ Len(state'.messages) = Len(state.messages) + 1
            /\ SubSeq(state'.messages, 1, Len(state.messages)) = state.messages
            /\ state'.messages[Len(state'.messages)].role = "assistant"
            /\ HasItem(localStorage', ChatKey(state.sessionId))
            /\ ParseJSON(localStorage'[ChatKey(state.sessionId)]).messages = state'.messages
            /\ \A sid \in ListIds \ {state.sessionId} : UnchangedAt(ChatKey(sid))]_vars

\* the question was asked in one conversation and its turn is still open; the
\* answer is the only message of the conversation now active, in memory and
\* in the store
Misattributed ==
    /\ state.processing
    /\ state.messages = <<HiMessage>>
    /\ HasSnapshot(state.sessionId)
    /\ Snapshot(state.sessionId).messages = <<HiMessage>>
    /\ \E sid \in ListIds \ {state.sessionId} :
           /\ HasSnapshot(sid)
           /\ Snapshot(sid).messages = <<HelloMessage>>

-----------------------------------------------------------------------------
(* A store that refuses writes.  localStorage.setItem throws when the quota *)
(* of the origin is used up.  In SpecFull a send and a create run either   *)
(* with a store that takes their writes or with one that refuses them; a    *)
(* push event, a switch and a rename run with one that refuses them.        *)

\* app.js:46-52, 497-513: the writes of saveConversationList and
\* saveMessagesToStorage are inside a try whose catch logs; when setItem throws
\* the handler w ran to `done` with the store as it was
Refused(w, done) == [done EXCEPT !.localStorage = w.localStorage]

\* app.js:202-214: switchConversation when setItem throws: the save of the
\* outgoing transcript is caught, the active id is assigned, and the unguarded
\* setItem('current_session_id') ends the function
switchConversationRefused(w, sessionId, t) ==
    IF w.state.sessionId = sessionId THEN w
    ELSE [w EXCEPT !.state.sessionId = sessionId]

\* app.js:1173-1177: newChat when setItem throws: the active id is assigned and
\* the unguarded setItem('current_session_id') ends the function
newChatRefused(w, t, r) ==
    [w EXCEPT !.state.sessionId = generateSessionId(t, r)]

\* the user sends and the store refuses the writes of addMessage
HandleSendRefused ==
    /\ Commit(Refused(World, handleSend(World, now)))
    /\ UNCHANGED <<now, ws, net>>

\* a frame arrives and the store refuses the writes of its handler
OnMessageRefused(frame) ==
    /\ ws.open > 0
    /\ Commit(Refused(World, onmessage(World, frame, now)))
    /\ UNCHANGED <<now, ws, net>>

\* the user clicks an item of the list and the store refuses the writes
SwitchConversationRefused(sessionId) ==
    /\ \E i \in DOMAIN chatHistory : chatHistory[i].id = sessionId
    /\ Commit(switchConversationRefused(World, sessionId, now))
    /\ UNCHANGED <<now, ws, net>>

\* the user clicks "new chat" and the store refuses the write
NewChatRefused(r) ==
    /\ Commit(newChatRefused(World, now, r))
    /\ UNCHANGED <<now, ws, net>>

\* the user renames an item and the store refuses the write of the list
RenameRefused(sessionId, newTitle) ==
    /\ \E i \in DOMAIN chatHistory : chatHistory[i].id = sessionId
    /\ Commit(Refused(World, saveEdit(World, sessionId, newTitle, now)))
    /\ UNCHANGED <<now, ws, net>>

NextFull ==
    \/ Free(ClockRuns /\ Tick)
    \/ Free(HandleInput(Hello))
    \/ Free(MsgRoom /\ FetchRoom /\ HandleSend)
    \/ Free(\E req \in BagToSet(fetches) : ChatOk(req))
    \/ Free(\E r \in Rnd : (ConvRoom /\ FetchRoom /\ NewChat(r)))
    \/ Free(\E req \in BagToSet(fetches) : (ResetSettled(req) /\ DomFits))
    \/ Free(WsOpen)
    \/ Free(MsgRoom /\ FetchRoom /\ HandleSendRefused)
    \/ Free(MsgRoom /\ OnMessageRefused(Frame(AssistantEvent)))
    \/ Free(\E sid \in SessionIds(MaxTime) : SwitchConversationRefused(sid))
    \/ Free(\E r \in Rnd : NewChatRefused(r))
    \/ Free(\E sid \in SessionIds(MaxTime), title \in Titles : RenameRefused(sid, title))

SpecFull == Init /\ [][NextFull]_vars

\* the step leaves the page, the store aside, as the handler that ran to w
\* leaves it
Completes(w) ==
    /\ state' = w.state
    /\ container' = w.container
    /\ controls' = w.controls
    /\ fetches' = w.fetches

\* C31 A write the store refuses is only logged: the operation (send, push
\* event, switch, create, rename) completes, leaving in memory what it leaves
\* when the store takes the write, so that the active id, the message list
\* and the conversation list describe the same conversation.
WriteFailureOnlyLogged ==
    /\ [][HandleSendRefused => Completes(handleSend(World, now))]_vars
    /\ [][OnMessageRefused(Frame(AssistantEvent))
            => Completes(onmessage(World, Frame(AssistantEvent), now))]_vars
    /\ [][\A sid \in SessionIds(MaxTime), title \in Titles :
            RenameRefused(sid, title) => Completes(saveEdit(World, sid, title, now))]_vars
    /\ [][\A sid \in SessionIds(MaxTime) :
            SwitchConversationRefused(sid)
            => Completes(switchConversation(World, sid, now))]_vars
    /\ [][\A r \in Rnd : NewChatRefused(r) => Completes(newChat(World, now, r))]_vars

-----------------------------------------------------------------------------
(* Placeholders *)

\* the transcript holds an open placeholder: the typing indicator, or a
\* message whose log container still has the id of the current one
OpenPlaceholder ==
    \/ TypingIndex(container) # 0
    \/ \E i \in DOMAIN container : \E k \in DOMAIN container[i].kids :
           container[i].kids[k].id = "current-log-container"

\* C32 While the page is idle the transcript holds no open placeholder:
\* after done, after the restore of a snapshot on startup and after a
\* switch of conversation.
NoPlaceholderAtIdle ==
    Idle => ~OpenPlaceholder

-----------------------------------------------------------------------------
(* The rendered transcript and the message list *)

\* the text a message element shows
TextOf(el) ==
    LET texts == SelectSeq(el.kids, LAMBDA k : k.cls = "message-text")
    IN  IF texts = <<>> THEN <<>> ELSE texts[1].text

\* the (role, content) of the message elements of a transcript, in document
\* order; the typing placeholder is not a message
RECURSIVE RenderedMessages(_)
RenderedMessages(dom) ==
    IF dom = <<>> THEN <<>>
    ELSE (IF Head(dom).cls = "message" /\ Head(dom).id # "typing-indicator"
          THEN <<[role |-> Head(dom).key, content |-> TextOf(Head(dom))]>>
          ELSE <<>>) \o RenderedMessages(Tail(dom))

\* C33 The rendered transcript and the message list agree: in every state
\* the (role, content) of the message elements, in document order, is the
\* in-memory message list, and the markup of every stored snapshot renders
\* the messages stored with it.
RenderedIsMessages ==
    /\ RenderedMessages(container) = state.messages
    /\ \A sid \in SessionIds(MaxTime) :
           HasSnapshot(sid)
           => RenderedMessages(SetInnerHTML(Snapshot(sid).messagesHTML))
                  = Snapshot(sid).messages

-----------------------------------------------------------------------------
(* Cancel, send again, and the done of the cancelled turn.  The server of    *)
(* SpecCancel takes turns and ends them with done; a cancel is a             *)
(* notification that does not make it stop.                                  *)

NextCancel ==
    \/ Free(HandleInput(Hello))
    \/ Free(ToolMsgRoom /\ HandleSend)
    \/ Free(\E req \in BagToSet(fetches) : Accept(req))
    \/ Free(ToolMsgRoom /\ HandleStop)
    \/ Free(\E req \in BagToSet(fetches), ok \in BOOLEAN : CancelSettled(req, ok))
    \/ Free(ServerDone)
    \/ Free(Receive)
    \/ Free(WsOpen)

SpecCancel == Init /\ [][NextCancel]_vars

\* the send request of the open turn is still on its way: the server has not
\* taken this turn, so whatever is on the wire belongs to an earlier one
TurnNotTaken ==
    /\ state.processing
    /\ TypingIndex(container) # 0
    /\ \E req \in BagToSet(fetches) :
           req.api = "/api/chat" /\ req.messages = state.messages

\* the oldest frame in flight is a done and is received
ReceivesDone == Receive /\ Head(net.wire).frame = Frame(DoneEvent)

\* C34 A done completes only the turn it was issued for: the done of a
\* cancelled turn that arrives after the next message was sent, while that
\* message's turn is open, leaves the page busy with the input locked.
DoneCompletesItsTurn ==
    [][(TurnNotTaken /\ ReceivesDone) => (state'.processing /\ controls'.inputDisabled)]_vars

-----------------------------------------------------------------------------
(* A send that fails after the active conversation changed *)

\* SpecLate: the user goes on while a request is outstanding, so a send, a
\* create and a switch overlap with the requests of the operation before.
LateRoom == BagCardinality(fetches) <= MaxFetches

NextLate ==
    \/ Free(ClockRuns /\ Tick)
    \/ Free(HandleInput(Hello))
    \/ Free(MsgRoom /\ LateRoom /\ HandleSend)
    \/ Free(\E req \in BagToSet(fetches) : ChatOk(req))
    \/ Free(\E req \in BagToSet(fetches) : (MsgRoom /\ ChatFail(req)))
    \/ Free(\E r \in Rnd : (ConvRoom /\ LateRoom /\ NewChat(r)))
    \/ Free(\E req \in BagToSet(fetches) : (ResetSettled(req) /\ DomFits))
    \/ Free(\E sid \in SessionIds(MaxTime) : (LateRoom /\ SwitchConversation(sid) /\ DomFits))
    \/ Free(\E req \in BagToSet(fetches) : RestoreSettled(req))
    \/ Free(WsOpen)
    \/ Free(KidRoom /\ OnMessage(Frame(ToolCallEvent("search"))))
    \/ Free(OnMessage(Frame(DoneEvent)))

SpecLate == Init /\ [][NextLate]_vars

\* the send request failed and another conversation is active by now
FailsElsewhere(req) == ChatFail(req) /\ req.session_id # state.sessionId

\* C35 The error message of a failed send goes to the conversation the
\* message was sent in: when another conversation is active by the time the
\* request fails, the message is added to the stored transcript of the
\* sender and the active transcript stays as it is.
FailureGoesToSender ==
    [][\A req \in BagToSet(fetches) :
         FailsElsewhere(req)
         => /\ state'.messages = state.messages
            /\ HasItem(localStorage', ChatKey(req.session_id))
            /\ ParseJSON(localStorage'[ChatKey(req.session_id)]).messages
                   = Append(req.messages, SorryMessage)]_vars

\* a turn is open and its placeholder is the last element of the transcript,
\* where tool_call and notion_link look for it
PlaceholderLast ==
    /\ state.processing
    /\ container # <<>>
    /\ TypingIndex(container) = Len(container)

\* C36 A message sent while the reset request of a create is outstanding
\* gives the transcript it gives when sent after it: when the reset request
\* settles, the open placeholder is still the last element, so the tool_call
\* and notion_link events of the turn find it.
ResetKeepsPlaceholderLast ==
    [][\A req \in BagToSet(fetches) :
         (PlaceholderLast /\ ResetSettled(req)) => PlaceholderLast']_vars

-----------------------------------------------------------------------------
(* One connection *)

\* C37 At most one connection: the sockets (connecting or open) and the
\* pending reconnect timers are never more than one in all; a timer is armed
\* only by the step in which a socket goes away, one timer for that one
\* socket; so no two sockets are ever open to deliver events at once.
OneConnection ==
    /\ [](Sockets + Len(ws.timers) <= 1)
    /\ [](ws.open <= 1)
    /\ [][Len(ws'.timers) > Len(ws.timers)
            => /\ Sockets' = Sockets - 1
               /\ Len(ws'.timers) = Len(ws.timers) + 1]_vars

\* a turn is open, the socket is gone after a failed attempt and one timer is
\* pending
OneConnectionWitness ==
    /\ state.processing
    /\ Sockets = 0
    /\ Len(ws.timers) = 1
    /\ ws.fails > 0

-----------------------------------------------------------------------------
(* The controls and the turn *)

\* C38 The controls follow the turn: the message input is disabled and the
\* stop button is shown exactly when a turn is in progress; at idle the
\* input is enabled and the stop button hidden.
ControlsFollowTurn ==
    /\ state.processing <=> controls.inputDisabled
    /\ state.processing <=> ~controls.stopHidden
    /\ state.processing <=> controls.sendHidden

\* the page is idle, with the input enabled and the stop button hidden, after
\* a turn that was stopped
ControlsFollowTurnWitness ==
    /\ Idle
    /\ Enabled
    /\ state.messages # <<>>
    /\ LastMessage = StoppedMessage

-----------------------------------------------------------------------------
(* Snapshots and the list *)

\* the ids that have a stored snapshot
SnapshotIds == {k[2] : k \in StoredKeys(localStorage) \ {KeyCurrent, KeyConversations}}

\* C39 Every stored snapshot belongs to a listed conversation; after a
\* confirmed delete of X there is no snapshot under X, and X is neither listed
\* nor active, so that no push event or response that arrives later stores
\* one under it.
SnapshotsAreListed ==
    /\ [](SnapshotIds \subseteq ListIds)
    /\ [][\A sid \in SessionIds(MaxListTime), r \in Rnd :
            DeleteConversation(sid, TRUE, r)
            => /\ ~HasItem(localStorage', ChatKey(sid))
               /\ sid # state'.sessionId]_vars

-----------------------------------------------------------------------------
(* The stored current id *)

\* C40 The stored current_session_id is the active id: after the page load
\* and after every create, switch and delete (in every state, these being
\* the only operations that change either), so that a reload comes back to
\* the conversation that was active.
CurrentIdPersisted ==
    /\ [](HasItem(localStorage, KeyCurrent) /\ localStorage[KeyCurrent] = state.sessionId)
    /\ [][\A r \in Rnd : Reload(r) => state'.sessionId = state.sessionId]_vars

\* the user went back to the older of two conversations and it is the stored
\* current one
CurrentIdPersistedWitness ==
    /\ Len(state.conversations) = 2
    /\ state.sessionId = state.conversations[2].id
    /\ state.sessionId # state.conversations[1].id
    /\ localStorage[KeyCurrent] = state.sessionId

====
